---------------------------- MODULE Spec2Model ----------------------------
(***************************************************************************)
(* Model of the agent execution engine and task-orchestration layer of     *)
(* RedTeamAgent:                                                           *)
(*   - src/agents/task_orchestrator.py  TaskRelationManager (TaskGraph)    *)
(*   - src/agents.py                    BaseAgent, StreamingGenericAgent,  *)
(*                                      EnhancedAgentOrchestrator          *)
(*   - src/main.py                      ImprovedChatInterface.stop_all     *)
(* The specifications share the variables:                                 *)
(*   SpecGraph      the TaskRelationManager under arbitrary calls;         *)
(*   Spec           the orchestrator with its agents and their worker      *)
(*                  threads, _execute_task taken as one step, stopped by   *)
(*                  either stop_all_agents;                                *)
(*   SpecAdmission  the same with one agent more than the ceiling of       *)
(*                  concurrent agents;                                     *)
(*   SpecLoop       one agent whose _execute_task runs the conversation    *)
(*                  loop statement by statement (SpecLoopFair adds the     *)
(*                  scheduler's fairness for the worker thread);           *)
(*   SpecChain      the TaskRelationManager with its queries, and          *)
(*                  get_task_chain statement by statement;                 *)
(*   SpecStreaming  the loop with the backend call request by request;     *)
(*   SpecToolOutput the loop with the texts its tools return;              *)
(*   SpecSubAgents, SpecCancelTree  trees of task agents                   *)
(*                  (src/agents/task_agents.py).                           *)
(***************************************************************************)
EXTENDS Integers, Sequences, FiniteSets, TLC

(***************************************************************************)
(* Bounds of the model.                                                    *)
(***************************************************************************)
\* number of distinct Node ids the graph operations are called with
NumTasks == 3
\* number of TaskRelationManager calls explored in one behaviour
MaxGraphOps == 3
\* number of elements of get_task_chain's list the model keeps
MaxChainLen == 4
\* number of characters of a tool output kept by the chat window (2000 in
\* src/gui/chat_tab.py), scaled
ToolOutputCap == 2
\* number of agents constructed in one behaviour of Spec
MaxAgents == 2
\* number of task agents (src/agents/task_agents.py) constructed
MaxTaskAgents == 2
\* number of task agents constructed where trees of sub-agents are built
MaxTreeAgents == 4
\* number of task agents constructed where a tree of them is run and cancelled
MaxCancelAgents == 3
\* self.max_iterations, 25 in the source, and the iteration thresholds of
\* _check_task_completion, 15, 20 and 5 in the source: scaled down together,
\* their order kept
\* agent ids are drawn below IdLimit (2^32 in the source), and the first
\* MaxRandomIds agents of a behaviour draw theirs from either end of the range
IdLimit == 100
MaxRandomIds == 3
\* number of callbacks registered with the orchestrator (add_callback)
NumObservers == 2
\* number of rate-limit events a run has had before the call site is entered
MaxRateLimitEvents == 7
max_iterations == 4
soft_completion_iteration == 2
forced_completion_iteration == 3
short_reply_iteration == 1

(***************************************************************************)
(* State                                                                   *)
(***************************************************************************)
VARIABLES
    \* TaskRelationManager
    task_registry,   \* set of ids that are keys of self.task_registry
    relationships,   \* self.relationships: id -> [Direction -> id or NoId]
    graphOp,         \* the last TaskRelationManager call and its task
    nGraphOps,       \* number of calls made so far
    chain_walk,      \* the get_task_chain call in progress: position, locals
    \* EnhancedAgentOrchestrator
    created,      \* number of agent objects constructed so far
    agent_id,     \* BaseAgent.id of each object
    agents,       \* orchestrator registry: the dict's objects in key order
    createOp,     \* outcome of the last create_agent call
    stop,         \* the thread running stop_all_agents
    \* BaseAgent
    status,       \* BaseAgent.status
    result,       \* BaseAgent.result (None or the dict _execute_task returned)
    error,        \* BaseAgent.error
    start_time,   \* BaseAgent.start_time (None or set)
    end_time,     \* BaseAgent.end_time (None or set)
    observed,     \* what the status callbacks saw at their last notification
    pc,           \* position of each agent's worker thread
    \* StreamingGenericAgent
    conversation_history,  \* list of messages, each a role and a kind of content
    iteration,             \* local of _run_streaming_conversation_loop
    consecutive_errors,    \* local of _run_streaming_conversation_loop
    last_response,         \* local of _run_streaming_conversation_loop
    tool_used,             \* local: what _process_tool_usage_with_streaming returned
    tools_used,            \* self.tools_used
    tool_results,          \* self.tool_results
    rate_limit_backoff,    \* self.rate_limit_backoff
    enabled,               \* tool.enabled of each tool
    api_calls,             \* number of _make_streaming_api_call calls of the agent
    posts,                 \* the requests.post calls of the agent's last backend call
    tool_event,            \* outcome of the tool step of the current iteration
    loop_exit,             \* why the conversation loop was left
    \* task agents (src/agents/task_agents.py)
    task_agents,      \* the BaseAgent objects constructed so far, by Node id
    trm,              \* whether the agent was given the TaskRelationManager
    task_status,      \* BaseAgent.status
    task_result,      \* BaseAgent.result
    task_error,       \* BaseAgent.error
    task_start_time,  \* BaseAgent.start_time (None or set)
    task_end_time,    \* BaseAgent.end_time (None or set)
    sub_agents,       \* BaseAgent.sub_agents
    parent_agent,     \* BaseAgent.parent_agent (NoId for None)
    notifications,    \* number of times the agent's callbacks were run
    task_pc,          \* position of the agent's worker thread
    \* tools (src/mcp)
    reply,            \* a reply of the backend, by what the tools' patterns find
    detection,        \* what each tool's detect_request returned for it
    \* threads of the orchestrator's callers, statement by statement
    delivered,        \* what the orchestrator's observers were shown, in order
    creating,         \* the create_agent call of each calling thread: position, locals
    evicted,          \* the agents some cleanup_old_agents call sorted and did not keep
    creation          \* the last McpAgentCreator.execute call: its block, its text

varsGraph == <<task_registry, relationships, graphOp, nGraphOps, chain_walk>>

varsReg == <<created, agent_id, agents, createOp>>

\* the fields set_status writes
varsStatus == <<status, start_time, end_time, observed>>

varsLoop == <<iteration, consecutive_errors, last_response, tool_used, tools_used,
              tool_results, rate_limit_backoff, api_calls, posts, tool_event, loop_exit>>

\* the fields of the task agents that set_status writes
varsTaskStatus == <<task_status, task_start_time, task_end_time, notifications>>

varsTask == <<task_agents, trm, varsTaskStatus, task_result, task_error, sub_agents,
              parent_agent, task_pc>>

varsDetect == <<reply, detection>>

varsCalls == <<delivered, creating, evicted, creation>>

\* everything but the TaskRelationManager
varsAgents == <<varsReg, stop, varsStatus, result, error, pc, conversation_history,
                varsLoop, enabled, varsTask, varsDetect, varsCalls>>

vars == <<varsGraph, varsAgents>>

(***************************************************************************)
(* TaskRelationManager (src/agents/task_orchestrator.py)                   *)
(***************************************************************************)
\* Python None in a direction slot (ids are integers 0 .. 2^32-1)
NoId == -1

\* Node.id = uuid4().int & 0xFFFFFFFF: any 32-bit value, 0 included
TaskIds == 0 .. (NumTasks - 1)

Direction == {"UP", "DOWN", "LEFT", "RIGHT"}

get_reverse_direction(direction) ==
    CASE direction = "UP" -> "DOWN"
      [] direction = "DOWN" -> "UP"
      [] direction = "LEFT" -> "RIGHT"
      [] direction = "RIGHT" -> "LEFT"

\* The manager's two dictionaries as one value, so that calls compose.
TRM(reg, rel) == [reg |-> reg, rel |-> rel]

EmptySlots == [d \in Direction |-> NoId]

\* _get_task_id: returns task.id and, as a side effect, registers the task
get_task_id(G, task) == TRM(G.reg \cup {task}, G.rel)

add_task(G, task) ==
    LET G1 == get_task_id(G, task)
    IN  IF task \notin DOMAIN G1.rel
        THEN TRM(G1.reg, [t \in DOMAIN G1.rel \cup {task} |->
                             IF t = task THEN EmptySlots ELSE G1.rel[t]])
        ELSE G1

\* set_relationship(from_task, direction, to_task); to = NoId is to_task=None
set_relationship(G, from, direction, to) ==
    LET G1 == get_task_id(G, from)
        G2 == IF to # NoId THEN get_task_id(G1, to) ELSE G1
        G3 == IF from \notin DOMAIN G2.rel THEN add_task(G2, from) ELSE G2
        G4 == IF to # NoId /\ to \notin DOMAIN G3.rel THEN add_task(G3, to) ELSE G3
        r1 == [G4.rel EXCEPT ![from][direction] = to]
        r2 == IF to # NoId
              THEN [r1 EXCEPT ![to][get_reverse_direction(direction)] = from]
              ELSE r1
    IN  TRM(G4.reg, r2)

\* get_direction_neighbors: the slot value, or NoId for an unknown task
\* (the call registers the task through _get_task_id)
get_direction_neighbors(G, task, direction) ==
    IF task \in DOMAIN G.rel THEN G.rel[task][direction] ELSE NoId

\* Python truthiness of a slot value: None and the id 0 are both falsy
Falsy(v) == v = NoId \/ v = 0

RECURSIVE LinkSubTasks(_, _, _, _, _)
LinkSubTasks(G, current_task, sub_tasks, available_direction, i) ==
    IF i > Len(sub_tasks) THEN G
    ELSE LET G1 == IF i = 1
                   THEN set_relationship(G, current_task, available_direction,
                                         sub_tasks[1])
                   ELSE set_relationship(G, sub_tasks[i - 1], available_direction,
                                         sub_tasks[i])
         IN  LinkSubTasks(G1, current_task, sub_tasks, available_direction, i + 1)

add_sub_tasks(G, current_task, sub_tasks) ==
    IF sub_tasks = <<>> THEN G
    ELSE LET G1 == get_task_id(G, current_task)
             available_direction ==
                 IF Falsy(get_direction_neighbors(G1, current_task, "DOWN"))
                 THEN "DOWN"
                 ELSE IF Falsy(get_direction_neighbors(G1, current_task, "RIGHT"))
                      THEN "RIGHT"
                      ELSE "NONE"
         IN  IF available_direction = "NONE" THEN G1
             ELSE LinkSubTasks(G1, current_task, sub_tasks, available_direction, 1)

remove_node(G, task) ==
    LET G1 == get_task_id(G, task)
    IN  IF task \notin DOMAIN G1.rel THEN G1
        ELSE LET cleared ==
                   [n \in DOMAIN G1.rel |->
                      [d \in Direction |->
                         IF G1.rel[task][get_reverse_direction(d)] = n
                         THEN NoId
                         ELSE G1.rel[n][d]]]
             IN  TRM(G1.reg \ {task},
                     [n \in DOMAIN G1.rel \ {task} |-> cleared[n]])

GraphNow == TRM(task_registry, relationships)

Call(G, op) ==
    /\ nGraphOps < MaxGraphOps
    /\ chain_walk.pc = "idle"
    /\ task_registry' = G.reg
    /\ relationships' = G.rel
    /\ graphOp' = op
    /\ nGraphOps' = nGraphOps + 1
    /\ UNCHANGED <<chain_walk, varsAgents>>

Op(name, task) == [op |-> name, task |-> task]

AddTask(task) ==
    Call(add_task(GraphNow, task), Op("add_task", task))

SetRelation(from, direction, to) ==
    Call(set_relationship(GraphNow, from, direction, to),
         Op("set_relationship", from))

AddChildren(task, subs) ==
    Call(add_sub_tasks(GraphNow, task, subs),
         Op("add_sub_tasks", task))

Remove(task) ==
    Call(remove_node(GraphNow, task), Op("remove_node", task))

\* get_neighbors(task): task_id = self._get_task_id(task), then a read
GetNeighbors(task) ==
    Call(get_task_id(GraphNow, task), Op("get_neighbors", task))

\* get_direction_neighbors(task, direction): the same, reading one slot
GetDirectionNeighbors(task) ==
    Call(get_task_id(GraphNow, task), Op("get_direction_neighbors", task))

\* the sub_tasks lists tried for a parent: empty, one child, two distinct
\* children (a task is never its own sub-task)
SubTaskLists(task) ==
    LET C == TaskIds \ {task}
    IN  {<<>>} \cup {<<a>> : a \in C}
               \cup {<<p[1], p[2]>> : p \in {q \in C \X C : q[1] # q[2]}}

\* no get_task_chain call is in progress
NoWalk == [pc |-> "idle", start |-> NoId, direction |-> "NONE", chain |-> <<>>,
           current_id |-> NoId]

\* get_task_chain(start_task, direction), statement by statement.
\* chain = []; current_id = self._get_task_id(start_task): the start task is
\* registered when it was not
GetChainEnter(task, direction) ==
    /\ chain_walk.pc = "idle"
    /\ nGraphOps < MaxGraphOps
    /\ LET G == get_task_id(GraphNow, task)
       IN  /\ task_registry' = G.reg
           /\ relationships' = G.rel
    /\ graphOp' = Op("get_task_chain", task)
    /\ nGraphOps' = nGraphOps + 1
    /\ chain_walk' = [pc |-> "while", start |-> task, direction |-> direction,
                      chain |-> <<>>, current_id |-> task]
    /\ UNCHANGED varsAgents

\* one test of 'while current_id:' and, when it is truthy, one pass of the body:
\* chain.append(current_id);
\* current_id = self.relationships.get(current_id, {}).get(direction).
\* The model keeps the first MaxChainLen elements of the list
GetChainWhile ==
    /\ chain_walk.pc = "while"
    /\ LET cur == chain_walk.current_id
           d   == chain_walk.direction
       IN  IF Falsy(cur)
           THEN chain_walk' = [chain_walk EXCEPT !.pc = "return"]
           ELSE chain_walk' =
                    [chain_walk EXCEPT
                       !.chain = IF Len(@) < MaxChainLen THEN Append(@, cur) ELSE @,
                       !.current_id = IF cur \in DOMAIN relationships
                                      THEN relationships[cur][d] ELSE NoId]
    /\ UNCHANGED <<task_registry, relationships, graphOp, nGraphOps, varsAgents>>

\* return chain
GetChainReturn ==
    /\ chain_walk.pc = "return"
    /\ chain_walk' = NoWalk
    /\ UNCHANGED <<task_registry, relationships, graphOp, nGraphOps, varsAgents>>

InitGraph ==
    /\ task_registry = {}
    /\ relationships = <<>>
    /\ graphOp = Op("init", NoId)
    /\ nGraphOps = 0
    /\ chain_walk = NoWalk

NextGraph ==
    \/ \E t \in TaskIds : AddTask(t)
    \/ \E a \in TaskIds, d \in Direction, b \in TaskIds \cup {NoId} : SetRelation(a, d, b)
    \/ \E t \in TaskIds : \E subs \in SubTaskLists(t) : AddChildren(t, subs)
    \/ \E t \in TaskIds : Remove(t)


(***************************************************************************)
(* Agents and orchestrator (src/agents.py, src/main.py)                    *)
(***************************************************************************)
\* Python None for the string-valued fields result, error and the timestamps
None == "None"

\* AgentStatus
PENDING == "PENDING"
RUNNING == "RUNNING"
COMPLETED == "COMPLETED"
FAILED == "FAILED"

\* EnhancedAgentOrchestrator.__init__
max_concurrent_agents == 3
agent_cleanup_threshold == 20

\* the agent objects, numbered in the order they are constructed: those of
\* Spec, and one more than the ceiling for SpecAdmission
LifecycleObjs == 1 .. MaxAgents
AdmissionObjs == 1 .. (max_concurrent_agents + 1)
\* enough agents for create_agent to find the registry above its cleanup
\* threshold, those whose thread is started among them
EvictionObjs == 1 .. (agent_cleanup_threshold + 2)
EvictionWorkers == {1, 2}
Objs == LifecycleObjs \cup AdmissionObjs

\* the texts the code stores in BaseAgent.error
ServerDown == "API server is not available"
StoppedByOrchestrator == "Stopped by orchestrator"
StoppedByUser == "Manually stopped by user"

\* the dict _execute_task returns (its fields are read from the loop's state)
TaskResult == "dict"

Snapshot(st, res, err) == [status |-> st, result |-> res, error |-> err]

Msg(role, kind) == [role |-> role, kind |-> kind]

\* _initialize_enhanced_conversation
InitialConversation == <<Msg("system", "system_prompt"), Msg("user", "task")>>

varsOther == <<varsGraph, enabled, varsTask, varsDetect, varsCalls>>

\* set_status: assigns the status, stamps the time, then runs the callbacks,
\* which read the agent as it is at that moment
set_status(o, s) ==
    /\ status' = [status EXCEPT ![o] = s]
    /\ start_time' = IF s = RUNNING THEN [start_time EXCEPT ![o] = "set"]
                     ELSE start_time
    /\ end_time' = IF s \in {COMPLETED, FAILED} THEN [end_time EXCEPT ![o] = "set"]
                   ELSE end_time
    /\ observed' = [observed EXCEPT ![o] = Snapshot(s, result[o], error[o])]

\* get_running_agents: the registered agents whose status is RUNNING
get_running_agents == SelectSeq(agents, LAMBDA o : status[o] = RUNNING)

Range(seq) == {seq[k] : k \in 1 .. Len(seq)}

\* sorted(self.agents.items(), key=id, reverse=True): registry keys are distinct
RECURSIVE SortedByIdDesc(_)
SortedByIdDesc(S) ==
    IF S = {} THEN <<>>
    ELSE LET top == CHOOSE o \in S : \A p \in S : agent_id[p] <= agent_id[o]
         IN  <<top>> \o SortedByIdDesc(S \ {top})

cleanup_old_agents(reg, keep_count) ==
    IF Len(reg) > keep_count
    THEN SubSeq(SortedByIdDesc(Range(reg)), 1, keep_count)
    ELSE reg

\* self.agents[agent.id] = agent: a new key is appended, an existing key keeps
\* its place and gets the new object
Register(reg, o, i) ==
    IF \E k \in 1 .. Len(reg) : agent_id[reg[k]] = i
    THEN [k \in 1 .. Len(reg) |-> IF agent_id[reg[k]] = i THEN o ELSE reg[k]]
    ELSE Append(reg, o)

\* an admission test that lets one agent more through: C4 tells it apart
AdmissionRejectsAbove(running) == running > max_concurrent_agents

\* the admission test of create_agent
AdmissionRejects(running) == running >= max_concurrent_agents

\* create_agent: admission check, cleanup, construction with id i, registration
CreateAgent(o, i) ==
    /\ o = created + 1
    /\ IF AdmissionRejects(Len(get_running_agents))
       THEN /\ createOp' = [outcome |-> "rejected",
                            running |-> Len(get_running_agents),
                            refused |-> TRUE]
            /\ UNCHANGED <<created, agent_id, agents, conversation_history>>
       ELSE LET kept == IF Len(agents) > agent_cleanup_threshold
                        THEN cleanup_old_agents(agents, agent_cleanup_threshold \div 2)
                        ELSE agents
            IN  /\ created' = o
                /\ agent_id' = [agent_id EXCEPT ![o] = i]
                /\ agents' = Register(kept, o, i)
                /\ conversation_history' =
                       [conversation_history EXCEPT ![o] = InitialConversation]
                /\ createOp' = [outcome |-> "created",
                                running |-> Len(get_running_agents),
                                refused |-> createOp.refused]
    /\ UNCHANGED <<stop, varsStatus, result, error, pc, varsLoop, varsOther>>

\* execute(): starts the worker thread and returns it (McpAgentCreator.execute
\* calls it once, on the agent it has just created)
Execute(o) ==
    /\ o <= created
    /\ pc[o] = "none"
    /\ pc' = [pc EXCEPT ![o] = "start"]
    /\ UNCHANGED <<varsReg, stop, varsStatus, result, error, conversation_history,
                   varsLoop, varsOther>>

\* _execute: self.set_status(AgentStatus.RUNNING)
WorkerStart(o) ==
    /\ pc[o] = "start"
    /\ set_status(o, RUNNING)
    /\ pc' = [pc EXCEPT ![o] = "task"]
    /\ UNCHANGED <<varsReg, stop, result, error, conversation_history, varsLoop,
                   varsOther>>

\* _execute: result = self._execute_task(); self.result = result.
\* The whole call as one step: it returns the loop's result
ExecuteTaskReturns(o) ==
    /\ pc[o] = "task"
    /\ result' = [result EXCEPT ![o] = TaskResult]
    /\ pc' = [pc EXCEPT ![o] = "complete"]
    /\ UNCHANGED <<varsReg, stop, varsStatus, error, conversation_history, varsLoop,
                   varsOther>>

\* _execute: _execute_task raises (the health check failed); self.error = str(e)
ExecuteTaskRaises(o) ==
    /\ pc[o] = "task"
    /\ error' = [error EXCEPT ![o] = ServerDown]
    /\ pc' = [pc EXCEPT ![o] = "fail"]
    /\ UNCHANGED <<varsReg, stop, varsStatus, result, conversation_history, varsLoop,
                   varsOther>>

\* _execute: self.set_status(AgentStatus.COMPLETED)
WorkerComplete(o) ==
    /\ pc[o] = "complete"
    /\ set_status(o, COMPLETED)
    /\ pc' = [pc EXCEPT ![o] = "done"]
    /\ UNCHANGED <<varsReg, stop, result, error, conversation_history, varsLoop,
                   varsOther>>

\* _execute: self.set_status(AgentStatus.FAILED) in the except branch
WorkerFail(o) ==
    /\ pc[o] = "fail"
    /\ set_status(o, FAILED)
    /\ pc' = [pc EXCEPT ![o] = "done"]
    /\ UNCHANGED <<varsReg, stop, result, error, conversation_history, varsLoop,
                   varsOther>>

\* no stop_all_agents call is in progress (its locals do not exist)
NoStop == [phase |-> "idle", who |-> "nobody", queue |-> <<>>]

\* stop_all_agents, entered: the list of running agents is taken once.
\* who = "orchestrator": EnhancedAgentOrchestrator.stop_all_agents,
\* who = "user": ImprovedChatInterface.stop_all_agents
StopAllBegin(who) ==
    /\ stop.phase = "idle"
    /\ stop' = IF get_running_agents = <<>>
               THEN NoStop
               ELSE [phase |-> "status", who |-> who, queue |-> get_running_agents]
    /\ UNCHANGED <<varsReg, varsStatus, result, error, pc, conversation_history,
                   varsLoop, varsOther>>

\* stop_all_agents, loop body: agent.set_status(AgentStatus.FAILED)
StopAllSetStatus ==
    /\ stop.phase = "status"
    /\ set_status(Head(stop.queue), FAILED)
    /\ stop' = [stop EXCEPT !.phase = "error"]
    /\ UNCHANGED <<varsReg, result, error, pc, conversation_history, varsLoop,
                   varsOther>>

\* the text stop_all_agents stores
StopText(who) == IF who = "orchestrator" THEN StoppedByOrchestrator ELSE StoppedByUser

\* stop_all_agents, loop body: agent.error = "..."; then the next agent
StopAllSetError ==
    /\ stop.phase = "error"
    /\ error' = [error EXCEPT ![Head(stop.queue)] = StopText(stop.who)]
    /\ stop' = IF Len(stop.queue) > 1
               THEN [stop EXCEPT !.queue = Tail(stop.queue), !.phase = "status"]
               ELSE NoStop
    /\ UNCHANGED <<varsReg, varsStatus, result, pc, conversation_history, varsLoop,
                   varsOther>>

\* the fields of the agent objects in S as __init__ leaves them, and an empty
\* orchestrator
InitAgentsOf(S) ==
    /\ created = 0
    /\ agent_id = [o \in S |-> 0]
    /\ agents = <<>>
    /\ createOp = [outcome |-> "none", running |-> 0, refused |-> FALSE]
    /\ stop = NoStop
    /\ status = [o \in S |-> PENDING]
    /\ result = [o \in S |-> None]
    /\ error = [o \in S |-> None]
    /\ start_time = [o \in S |-> None]
    /\ end_time = [o \in S |-> None]
    /\ observed = [o \in S |-> Snapshot(None, None, None)]
    /\ pc = [o \in S |-> "none"]
    /\ conversation_history = [o \in S |-> <<>>]

InitAgents == InitAgentsOf(Objs)

\* uuid4-derived ids: each construction draws an id not drawn before
FreshIds == {created + 1}

(***************************************************************************)
(* StreamingGenericAgent: the conversation loop (src/agents.py)            *)
(***************************************************************************)
\* the agent whose _execute_task is followed statement by statement
LoopObjs == {1}

\* self.tools, in insertion order
Tools == <<"mcp_websearch", "mcp_curl">>

ToolNames == Range(Tools)

\* consecutive_errors >= 3 leaves the loop
MaxConsecutiveErrors == 3

\* self.rate_limit_backoff, self.max_backoff
BaseBackoff == 5
max_backoff == 300

\* A non-empty reply of the backend, by what _check_task_completion reads in
\* it: a strong completion phrase, two or more weak phrases or neither, and
\* whether it is shorter than 100 characters.
Replies == {"strong_short", "strong_long", "weak_short", "weak_long",
            "plain_short", "plain_long"}

HasStrongIndicator(response) == response \in {"strong_short", "strong_long"}

WeakCount(response) == IF response \in {"weak_short", "weak_long"} THEN 2 ELSE 0

IsShort(response) == response \in {"strong_short", "weak_short", "plain_short"}

_check_task_completion(response, iter, used) ==
    IF HasStrongIndicator(response) THEN TRUE
    ELSE IF WeakCount(response) >= 2 THEN TRUE
    ELSE IF iter >= soft_completion_iteration /\ ~used THEN TRUE
    ELSE IF iter >= forced_completion_iteration THEN TRUE
    ELSE IF IsShort(response) /\ iter > short_reply_iteration THEN TRUE
    ELSE FALSE

Min(a, b) == IF a <= b THEN a ELSE b

\* a backoff that doubles without a ceiling: C26 tells it apart
_handle_rate_limiting_uncapped(backoff) == backoff * 2

\* _handle_rate_limiting: the backoff after one more rate-limit event
_handle_rate_limiting(backoff) == Min(backoff * 2, max_backoff)

\* a handler that swallows the exception without a message: C8 tells it apart
_handle_tool_error_silent(conv) == conv

\* _handle_tool_error: the diagnostic appended to the conversation
_handle_tool_error(conv) == Append(conv, Msg("user", "tool_error"))

\* what a tool does with a reply: detect_request returns None or a command or
\* raises; execute returns text or raises
Detections == [ToolNames -> {"none", "command", "raise"}]

\* the for loop of _process_tool_usage_with_streaming: index of the first
\* enabled tool whose detect_request returns a command or raises, 0 if none
RECURSIVE FirstActingTool(_, _)
\* the same loop without the break: the last tool that acts wins
FirstActingToolLast(det, k) ==
    IF \E j \in k .. Len(Tools) : enabled[Tools[j]] /\ det[Tools[j]] # "none"
    THEN CHOOSE j \in k .. Len(Tools) :
            /\ enabled[Tools[j]] /\ det[Tools[j]] # "none"
            /\ \A i \in (j + 1) .. Len(Tools) :
                  ~(enabled[Tools[i]] /\ det[Tools[i]] # "none")
    ELSE 0

\* the same loop without the test of tool.enabled
FirstActingToolAnyFlag(det, k) ==
    IF \E j \in k .. Len(Tools) : det[Tools[j]] # "none"
    THEN CHOOSE j \in k .. Len(Tools) :
            /\ det[Tools[j]] # "none"
            /\ \A i \in k .. (j - 1) : det[Tools[i]] = "none"
    ELSE 0

FirstActingTool(det, k) ==
    IF k > Len(Tools) THEN 0
    ELSE IF enabled[Tools[k]] /\ det[Tools[k]] # "none" THEN k
    ELSE FirstActingTool(det, k + 1)

\* _execute_task: the health check, then the loop's locals are initialised
CheckServerHealth(o) ==
    /\ pc[o] = "task"
    /\ \E healthy \in BOOLEAN :
          IF healthy
          THEN /\ pc' = [pc EXCEPT ![o] = "while"]
               /\ iteration' = [iteration EXCEPT ![o] = 0]
               /\ last_response' = [last_response EXCEPT ![o] = ""]
               /\ consecutive_errors' = [consecutive_errors EXCEPT ![o] = 0]
               /\ UNCHANGED error
          ELSE /\ pc' = [pc EXCEPT ![o] = "fail"]
               /\ error' = [error EXCEPT ![o] = ServerDown]
               /\ UNCHANGED <<iteration, last_response, consecutive_errors>>
    /\ UNCHANGED <<varsReg, stop, varsStatus, result, conversation_history, tool_used,
                   tools_used, tool_results, rate_limit_backoff, api_calls, posts,
                   tool_event, loop_exit, varsOther>>

\* a loop head without the iteration ceiling: C6 tells it apart
LoopHeadUnbounded(o) ==
    /\ pc[o] = "while"
    /\ iteration' = [iteration EXCEPT ![o] = @ + 1]
    /\ pc' = [pc EXCEPT ![o] = "call"]
    /\ tool_event' = [tool_event EXCEPT ![o] = "none"]
    /\ UNCHANGED <<varsReg, stop, varsStatus, result, error, conversation_history,
                   consecutive_errors, last_response, tool_used, tools_used,
                   tool_results, rate_limit_backoff, api_calls, posts, loop_exit, varsOther>>

\* while iteration < self.max_iterations: iteration += 1
LoopHead(o) ==
    /\ pc[o] = "while"
    /\ IF iteration[o] < max_iterations
       THEN /\ iteration' = [iteration EXCEPT ![o] = @ + 1]
            /\ pc' = [pc EXCEPT ![o] = "call"]
            /\ UNCHANGED loop_exit
       ELSE /\ pc' = [pc EXCEPT ![o] = "return"]
            /\ loop_exit' = [loop_exit EXCEPT ![o] = "exhausted"]
            /\ UNCHANGED iteration
    /\ tool_event' = [tool_event EXCEPT ![o] = "none"]
    /\ UNCHANGED <<varsReg, stop, varsStatus, result, error, conversation_history,
                   consecutive_errors, last_response, tool_used, tools_used,
                   tool_results, rate_limit_backoff, api_calls, posts, varsOther>>

\* one more failed call: break at the third in a row, else go on
AfterError(o, cont) ==
    /\ consecutive_errors' = [consecutive_errors EXCEPT ![o] = @ + 1]
    /\ IF consecutive_errors[o] + 1 >= MaxConsecutiveErrors
       THEN /\ pc' = [pc EXCEPT ![o] = "return"]
            /\ loop_exit' = [loop_exit EXCEPT ![o] = "errors"]
            /\ UNCHANGED conversation_history
       ELSE /\ pc' = [pc EXCEPT ![o] = "while"]
            /\ conversation_history' = [conversation_history EXCEPT ![o] = cont]
            /\ UNCHANGED loop_exit

\* _make_streaming_api_call, use_streaming being True: the streaming request
\* is posted at "call"; when anything in _handle_streaming_response raises
\* (the post itself, a status other than 200, the stream while it is read) the
\* except branch posts the same payload with stream = False, at "fallback".
\* Seen from "call" as one step, a call that raises has made both requests
CallSites == {"call", "fallback"}
Streamed == <<"stream">>
Retried == <<"stream", "plain">>
RequestsOf(o) == IF pc[o] = "fallback" THEN Retried ELSE Streamed

\* the streaming request fails and the exception leaves the function: a
\* _handle_streaming_response without its except branch; C33 tells it apart
StreamingFailsUncaught(o) ==
    /\ pc[o] = "call"
    /\ api_calls' = [api_calls EXCEPT ![o] = @ + 1]
    /\ posts' = [posts EXCEPT ![o] = Streamed]
    /\ consecutive_errors' = [consecutive_errors EXCEPT ![o] = @ + 1]
    /\ IF consecutive_errors[o] + 1 >= MaxConsecutiveErrors
       THEN /\ pc' = [pc EXCEPT ![o] = "return"]
            /\ loop_exit' = [loop_exit EXCEPT ![o] = "errors"]
            /\ UNCHANGED conversation_history
       ELSE /\ pc' = [pc EXCEPT ![o] = "while"]
            /\ conversation_history' =
                   [conversation_history EXCEPT
                      ![o] = Append(@, Msg("user", "backend_error"))]
            /\ UNCHANGED loop_exit
    /\ UNCHANGED <<varsReg, stop, varsStatus, result, error, iteration, last_response,
                   tool_used, tools_used, tool_results, rate_limit_backoff,
                   tool_event, varsOther>>

\* the streaming request fails, before or while the stream is read: the
\* content collected so far is dropped and the except branch is entered
StreamingFails(o) ==
    /\ pc[o] = "call"
    /\ posts' = [posts EXCEPT ![o] = Streamed]
    /\ pc' = [pc EXCEPT ![o] = "fallback"]
    /\ UNCHANGED <<varsReg, stop, varsStatus, result, error, conversation_history,
                   iteration, consecutive_errors, last_response, tool_used,
                   tools_used, tool_results, rate_limit_backoff, api_calls,
                   tool_event, loop_exit, varsOther>>

\* _make_streaming_api_call returns None or "": if not response
ApiCallEmpty(o) ==
    /\ pc[o] \in CallSites
    /\ api_calls' = [api_calls EXCEPT ![o] = @ + 1]
    /\ posts' = [posts EXCEPT ![o] = RequestsOf(o)]
    /\ AfterError(o, conversation_history[o])
    /\ UNCHANGED <<varsReg, stop, varsStatus, result, error, iteration, last_response,
                   tool_used, tools_used, tool_results, rate_limit_backoff,
                   tool_event, varsOther>>

\* _make_streaming_api_call raises and the text names a rate limit or 429:
\* back off and continue, whatever consecutive_errors is
ApiCallRateLimited(o) ==
    /\ pc[o] \in CallSites
    /\ api_calls' = [api_calls EXCEPT ![o] = @ + 1]
    /\ posts' = [posts EXCEPT ![o] = Retried]
    /\ consecutive_errors' = [consecutive_errors EXCEPT ![o] = @ + 1]
    /\ rate_limit_backoff' =
           [rate_limit_backoff EXCEPT ![o] = _handle_rate_limiting(@)]
    /\ pc' = [pc EXCEPT ![o] = "while"]
    /\ UNCHANGED <<varsReg, stop, varsStatus, result, error, conversation_history,
                   iteration, last_response, tool_used, tools_used, tool_results,
                   tool_event, loop_exit, varsOther>>

\* _make_streaming_api_call raises anything else (timeout, connection error,
\* status other than 200): the error context is appended unless the loop breaks
ApiCallError(o) ==
    /\ pc[o] \in CallSites
    /\ api_calls' = [api_calls EXCEPT ![o] = @ + 1]
    /\ posts' = [posts EXCEPT ![o] = Retried]
    /\ AfterError(o, Append(conversation_history[o], Msg("user", "backend_error")))
    /\ UNCHANGED <<varsReg, stop, varsStatus, result, error, iteration, last_response,
                   tool_used, tools_used, tool_results, rate_limit_backoff,
                   tool_event, varsOther>>

\* _make_streaming_api_call returns a non-empty reply
ApiCallReply(o, response) ==
    /\ pc[o] \in CallSites
    /\ api_calls' = [api_calls EXCEPT ![o] = @ + 1]
    /\ posts' = [posts EXCEPT ![o] = RequestsOf(o)]
    /\ consecutive_errors' = [consecutive_errors EXCEPT ![o] = 0]
    /\ rate_limit_backoff' = [rate_limit_backoff EXCEPT ![o] = BaseBackoff]
    /\ conversation_history' =
           [conversation_history EXCEPT ![o] = Append(@, Msg("assistant", "reply"))]
    /\ last_response' = [last_response EXCEPT ![o] = response]
    /\ pc' = [pc EXCEPT ![o] = "tools"]
    /\ UNCHANGED <<varsReg, stop, varsStatus, result, error, iteration, tool_used,
                   tools_used, tool_results, tool_event, loop_exit, varsOther>>

\* _process_tool_usage_with_streaming(response): det is what each tool's
\* detect_request does with the reply, exe what the detected tool's execute does
ProcessToolUsage(o, det, exe) ==
    /\ pc[o] = "tools"
    /\ LET k == FirstActingTool(det, 1)
           entry == [tool_name |-> Tools[k],
                     iteration |-> Len(conversation_history[o])]
       IN  IF k = 0
           THEN /\ tool_used' = [tool_used EXCEPT ![o] = FALSE]
                /\ tool_event' = [tool_event EXCEPT ![o] = "no_tool"]
                /\ UNCHANGED <<conversation_history, tools_used, tool_results>>
           ELSE IF det[Tools[k]] = "raise" \/ exe = "raise"
           THEN /\ conversation_history' =
                      [conversation_history EXCEPT ![o] = _handle_tool_error(@)]
                /\ tool_used' = [tool_used EXCEPT ![o] = TRUE]
                /\ tool_event' = [tool_event EXCEPT ![o] =
                      IF det[Tools[k]] = "raise" THEN "detect_error"
                      ELSE "execute_error"]
                /\ UNCHANGED <<tools_used, tool_results>>
           ELSE /\ tools_used' = [tools_used EXCEPT ![o] = Append(@, entry)]
                /\ tool_results' = [tool_results EXCEPT ![o] = Append(@, entry)]
                /\ conversation_history' =
                      [conversation_history EXCEPT ![o] =
                          Append(@, Msg("user", "tool_result"))]
                /\ tool_used' = [tool_used EXCEPT ![o] = TRUE]
                /\ tool_event' = [tool_event EXCEPT ![o] = "tool_ok"]
    /\ pc' = [pc EXCEPT ![o] = "check"]
    /\ UNCHANGED <<varsReg, stop, varsStatus, result, error, iteration,
                   consecutive_errors, last_response, rate_limit_backoff, api_calls, posts,
                   loop_exit, varsOther>>

\* the text a tool's execute returns: n characters
ToolOutput(n) == [i \in 1 .. n |-> "x"]
ToolOutputs == {ToolOutput(n) : n \in 0 .. (ToolOutputCap + 2)}

\* chat_tab.py, _execute_tool_for_ai: an output of more than 2000 characters
\* (ToolOutputCap here) is cut there and the marker text is added
TruncationMarker == "[Output truncated due to size limitations]"
truncate_tool_output(tool_output) ==
    IF Len(tool_output) > ToolOutputCap
    THEN SubSeq(tool_output, 1, ToolOutputCap) \o <<TruncationMarker>>
    ELSE tool_output

\* agents.py: tool_message = f"Tool '{display_name}' executed successfully.
\* Results: {tool_result}", the text before the result taken as one element
tool_message(tool_result) == <<"Tool executed successfully. Results:">> \o tool_result

\* _process_tool_usage_with_streaming where the first enabled tool detects a
\* command and its execute returns tool_result: the two log entries and the
\* message, with their texts
ProcessToolOutput(o, tool_result) ==
    /\ pc[o] = "tools"
    /\ \E t \in ToolNames : enabled[t]
    /\ LET k == CHOOSE j \in 1 .. Len(Tools) :
                    enabled[Tools[j]] /\ \A i \in 1 .. (j - 1) : ~enabled[Tools[i]]
           entry == [tool_name |-> Tools[k],
                     iteration |-> Len(conversation_history[o])]
       IN  /\ tools_used' = [tools_used EXCEPT ![o] = Append(@, entry)]
           /\ tool_results' =
                  [tool_results EXCEPT
                     ![o] = Append(@, [tool_name |-> Tools[k], result |-> tool_result,
                                       iteration |-> Len(conversation_history[o])])]
           /\ conversation_history' =
                  [conversation_history EXCEPT
                     ![o] = Append(@, [role |-> "user", kind |-> "tool_result",
                                       content |-> tool_message(tool_result)])]
    /\ tool_used' = [tool_used EXCEPT ![o] = TRUE]
    /\ tool_event' = [tool_event EXCEPT ![o] = "tool_ok"]
    /\ pc' = [pc EXCEPT ![o] = "check"]
    /\ UNCHANGED <<varsReg, stop, varsStatus, result, error, iteration,
                   consecutive_errors, last_response, rate_limit_backoff, api_calls, posts,
                   loop_exit, varsOther>>

\* if self._check_task_completion(response, iteration, tool_used): break
CheckTaskCompletion(o) ==
    /\ pc[o] = "check"
    /\ IF _check_task_completion(last_response[o], iteration[o], tool_used[o])
       THEN /\ pc' = [pc EXCEPT ![o] = "return"]
            /\ loop_exit' = [loop_exit EXCEPT ![o] = "completed"]
       ELSE /\ pc' = [pc EXCEPT ![o] = "while"]
            /\ UNCHANGED loop_exit
    /\ UNCHANGED <<varsReg, stop, varsStatus, result, error, conversation_history,
                   iteration, consecutive_errors, last_response, tool_used,
                   tools_used, tool_results, rate_limit_backoff, api_calls, posts,
                   tool_event, varsOther>>

\* the loop returns, _execute_task returns its dict; _execute: self.result = result
LoopReturn(o) ==
    /\ pc[o] = "return"
    /\ result' = [result EXCEPT ![o] = TaskResult]
    /\ pc' = [pc EXCEPT ![o] = "complete"]
    /\ UNCHANGED <<varsReg, stop, varsStatus, error, conversation_history, varsLoop,
                   varsOther>>

\* _toggle_tool: tool.enabled = not tool.enabled
ToggleTool(t) ==
    /\ enabled' = [enabled EXCEPT ![t] = ~@]
    /\ UNCHANGED <<varsGraph, varsReg, stop, varsStatus, result, error, pc,
                   conversation_history, varsLoop, varsTask, varsDetect, varsCalls>>

InitLoopOf(S) ==
    /\ iteration = [o \in S |-> 0]
    /\ consecutive_errors = [o \in S |-> 0]
    /\ last_response = [o \in S |-> ""]
    /\ tool_used = [o \in S |-> FALSE]
    /\ tools_used = [o \in S |-> <<>>]
    /\ tool_results = [o \in S |-> <<>>]
    /\ rate_limit_backoff = [o \in S |-> BaseBackoff]
    /\ api_calls = [o \in S |-> 0]
    /\ posts = [o \in S |-> <<>>]
    /\ tool_event = [o \in S |-> "none"]
    /\ loop_exit = [o \in S |-> "none"]
    /\ enabled = [t \in ToolNames |-> TRUE]

InitLoop == InitLoopOf(Objs)

(***************************************************************************)
(* Tool detection: McpWebsearch and McpCurl (src/mcp)                      *)
(***************************************************************************)
\* A reply, by what detect_request reads in it:
\*   block      the <name> of the first <tool>...</tool> block: "none" (no
\*              block), "web_search", "curl", "other" (any other name), or
\*              "malformed" (not XML, or no <name>)
\*   params     the block holds what its tool requires (a query of more than
\*              two characters, a target)
\*   block2     the <name> of a second, well-formed <tool>...</tool> block
\*              after the first, "none" if there is none. Both blocks are
\*              written the same way (both in an xml code fence or both
\*              bare), so that the patterns find the first one
\*   search     the text matches one of McpWebsearch's search_patterns
\*              ("search for ...", "what is ...", "look up ...", ...)
\*   curl_url   the text matches curl\s+.*https?://
\*   curl_id    the text matches curl\s+command\s+(\d+)
Texts ==
    {text \in [block : {"none", "web_search", "curl", "other", "malformed"},
               params : BOOLEAN,
               block2 : {"none", "web_search", "curl", "other"},
               search : BOOLEAN, curl_url : BOOLEAN, curl_id : BOOLEAN] :
        text.block = "none" => text.block2 = "none"}

\* no reply yet
NoText ==
    [block |-> "none", params |-> FALSE, block2 |-> "none", search |-> FALSE,
     curl_url |-> FALSE, curl_id |-> FALSE]

\* McpWebsearch._parse_tool_command: the name must be web_search and the
\* query longer than two characters; every exception gives None
websearch_parse_tool_command(text) ==
    IF text.block = "web_search" /\ text.params THEN "query" ELSE "None"

\* McpWebsearch.detect_request: the first block, if there is one, decides
\* (the patterns <tool>.*?</tool> are searched once); else the text patterns
websearch_detect_request(text) ==
    IF text.block # "none" THEN websearch_parse_tool_command(text)
    ELSE IF text.search THEN "query"
    ELSE "None"

\* McpCurl._parse_tool_command: the name must be curl and a target be given
curl_parse_tool_command(text) ==
    IF text.block = "curl" /\ text.params THEN "block" ELSE "None"

\* McpCurl.detect_request: when the text holds '<tool>' and '<name>curl</name>'
\* anywhere, the first block decides; any other text is matched against the
\* raw and the predefined command patterns
curl_detect_request(text) ==
    IF text.block = "curl" \/ text.block2 = "curl" THEN curl_parse_tool_command(text)
    ELSE IF text.curl_url THEN "raw"
    ELSE IF text.curl_id THEN "predefined"
    ELSE "None"

detect_request(t, text) ==
    IF t = "mcp_websearch" THEN websearch_detect_request(text)
    ELSE curl_detect_request(text)

\* tool.detect_request(response) is called
Detect(t) ==
    /\ detection' = [detection EXCEPT ![t] = detect_request(t, reply)]
    /\ UNCHANGED <<reply, varsGraph, varsReg, stop, varsStatus, result, error, pc,
                   conversation_history, varsLoop, enabled, varsTask, varsCalls>>

InitDetect ==
    /\ reply = NoText
    /\ detection = [t \in ToolNames |-> "not called"]

(***************************************************************************)
(* set_status and create_agent statement by statement (src/agents.py)      *)
(***************************************************************************)
\* the threads that may be inside create_agent at the same time
CreatorThreads == {1, 2}

\* a thread that is not inside create_agent
NotCreating == [at |-> "idle", keep |-> <<>>, sorted |-> {}]

\* no McpAgentCreator.execute call yet: no text returned
NoCreation ==
    [block |-> [xml |-> "empty", type |-> "missing", name |-> FALSE, param |-> FALSE],
     text |-> None, agent |-> 0]

InitCalls ==
    /\ delivered = <<>>
    /\ creating = [th \in CreatorThreads |-> NotCreating]
    /\ evicted = {}
    /\ creation = NoCreation

\* set_status, first half: self.status = status and the time stamp
assign_status(o, s) ==
    /\ status' = [status EXCEPT ![o] = s]
    /\ start_time' = IF s = RUNNING THEN [start_time EXCEPT ![o] = "set"]
                     ELSE start_time
    /\ end_time' = IF s \in {COMPLETED, FAILED} THEN [end_time EXCEPT ![o] = "set"]
                   ELSE end_time

\* set_status, second half: _notify_callbacks -> _on_agent_update ->
\* callback(agent). The observers are handed the agent and read agent.status
\* then; s is the status the caller of set_status assigned
notify_callbacks(o, s) ==
    /\ delivered' = Append(delivered, [agent |-> o, set |-> s, shown |-> status[o]])
    /\ observed' = [observed EXCEPT ![o] = Snapshot(status[o], result[o], error[o])]

\* the status _execute sets at each of its set_status calls
StatusSetAt(at) ==
    IF at \in {"start", "start_cb"} THEN RUNNING
    ELSE IF at \in {"complete", "complete_cb"} THEN COMPLETED
    ELSE FAILED

\* _execute, a set_status call: the assignment
WorkerAssign(o) ==
    /\ pc[o] \in {"start", "complete", "fail"}
    /\ assign_status(o, StatusSetAt(pc[o]))
    /\ pc' = [pc EXCEPT ![o] = IF @ = "start" THEN "start_cb"
                               ELSE IF @ = "complete" THEN "complete_cb"
                               ELSE "fail_cb"]
    /\ UNCHANGED <<varsReg, stop, observed, result, error, conversation_history,
                   varsLoop, varsGraph, enabled, varsTask, varsDetect, delivered,
                   creating, evicted, creation>>

\* _execute, a set_status call: the callbacks
WorkerNotify(o) ==
    /\ pc[o] \in {"start_cb", "complete_cb", "fail_cb"}
    /\ notify_callbacks(o, StatusSetAt(pc[o]))
    /\ pc' = [pc EXCEPT ![o] = IF @ = "start_cb" THEN "task" ELSE "done"]
    /\ UNCHANGED <<varsReg, stop, status, start_time, end_time, result, error,
                   conversation_history, varsLoop, varsGraph, enabled, varsTask,
                   varsDetect, creating, evicted, creation>>

\* stop_all_agents, agent.set_status(AgentStatus.FAILED): the assignment
StopAllAssign ==
    /\ stop.phase = "status"
    /\ assign_status(Head(stop.queue), FAILED)
    /\ stop' = [stop EXCEPT !.phase = "callbacks"]
    /\ UNCHANGED <<varsReg, observed, result, error, pc, conversation_history,
                   varsLoop, varsGraph, enabled, varsTask, varsDetect, delivered,
                   creating, evicted, creation>>

\* stop_all_agents, agent.set_status(AgentStatus.FAILED): the callbacks
StopAllNotify ==
    /\ stop.phase = "callbacks"
    /\ notify_callbacks(Head(stop.queue), FAILED)
    /\ stop' = [stop EXCEPT !.phase = "error"]
    /\ UNCHANGED <<varsReg, status, start_time, end_time, result, error, pc,
                   conversation_history, varsLoop, varsGraph, enabled, varsTask,
                   varsDetect, creating, evicted, creation>>

\* self.callbacks of the orchestrator, in the order of add_callback
Observers == 1 .. NumObservers

\* what one observer is handed: the agent, whose status it reads
Delivery(o, s, k, raises) ==
    [agent |-> o, set |-> s, shown |-> s, observer |-> k, raised |-> k \in raises]

\* a broadcast whose loop is left by the first exception: C30 tells it apart
RECURSIVE on_agent_update_unguarded(_, _, _, _)
on_agent_update_unguarded(o, s, raises, k) ==
    IF k > NumObservers THEN <<>>
    ELSE IF k \in raises THEN <<Delivery(o, s, k, raises)>>
    ELSE <<Delivery(o, s, k, raises)>> \o on_agent_update_unguarded(o, s, raises, k + 1)

\* _on_agent_update: for callback in self.callbacks: try: callback(agent)
\* except: print. The observers in raises raise; k is the next one to call
RECURSIVE on_agent_update(_, _, _, _)
on_agent_update(o, s, raises, k) ==
    IF k > NumObservers THEN <<>>
    ELSE <<Delivery(o, s, k, raises)>> \o on_agent_update(o, s, raises, k + 1)

\* set_status(s) of a registered agent as one step: the assignment, then
\* _notify_callbacks, whose one callback is the orchestrator's _on_agent_update
set_status_broadcast(o, s, raises) ==
    /\ assign_status(o, s)
    /\ observed' = [observed EXCEPT ![o] = Snapshot(s, result[o], error[o])]
    /\ delivered' = delivered \o on_agent_update(o, s, raises, 1)

\* _execute, a set_status call, the observers in raises raising
WorkerSetStatus(o, raises) ==
    /\ pc[o] \in {"start", "complete", "fail"}
    /\ set_status_broadcast(o, StatusSetAt(pc[o]), raises)
    /\ pc' = [pc EXCEPT ![o] = IF @ = "start" THEN "task" ELSE "done"]
    /\ UNCHANGED <<varsReg, stop, result, error, conversation_history, varsLoop,
                   varsGraph, enabled, varsTask, varsDetect, creating, evicted,
                   creation>>

\* stop_all_agents, agent.set_status(AgentStatus.FAILED), the observers in
\* raises raising
StopAllSetStatusBroadcast(raises) ==
    /\ stop.phase = "status"
    /\ set_status_broadcast(Head(stop.queue), FAILED, raises)
    /\ stop' = [stop EXCEPT !.phase = "error"]
    /\ UNCHANGED <<varsReg, result, error, pc, conversation_history, varsLoop,
                   varsGraph, enabled, varsTask, varsDetect, creating, evicted,
                   creation>>

\* create_agent in thread th, entered: the admission check, then the test
\* len(self.agents) > self.agent_cleanup_threshold
CreateEnter(th) ==
    /\ creating[th].at = "idle"
    /\ created < Cardinality(DOMAIN status)
    /\ IF AdmissionRejects(Len(get_running_agents))
       THEN /\ createOp' = [outcome |-> "rejected",
                            running |-> Len(get_running_agents),
                            refused |-> TRUE]
            /\ UNCHANGED creating
       ELSE /\ creating' = [creating EXCEPT ![th].at =
                               IF Len(agents) > agent_cleanup_threshold
                               THEN "sort" ELSE "register"]
            /\ UNCHANGED createOp
    /\ UNCHANGED <<created, agent_id, agents, stop, varsStatus, result, error, pc,
                   conversation_history, varsLoop, varsGraph, enabled, varsTask,
                   varsDetect, delivered, evicted, creation>>

\* cleanup_old_agents in thread th: sorted_agents = sorted(self.agents.items(),
\* ...); agents_to_keep = dict(sorted_agents[:keep_count])
CleanupSort(th) ==
    /\ creating[th].at = "sort"
    /\ creating' = [creating EXCEPT ![th] =
           [at |-> "replace",
            keep |-> cleanup_old_agents(agents, agent_cleanup_threshold \div 2),
            sorted |-> Range(agents)]]
    /\ UNCHANGED <<varsReg, stop, varsStatus, result, error, pc,
                   conversation_history, varsLoop, varsGraph, enabled, varsTask,
                   varsDetect, delivered, evicted, creation>>

\* cleanup_old_agents in thread th: self.agents = agents_to_keep
CleanupReplace(th) ==
    /\ creating[th].at = "replace"
    /\ agents' = creating[th].keep
    /\ evicted' = evicted \cup (creating[th].sorted \ Range(creating[th].keep))
    /\ creating' = [creating EXCEPT ![th] = [NotCreating EXCEPT !.at = "register"]]
    /\ UNCHANGED <<created, agent_id, createOp, stop, varsStatus, result, error, pc,
                   conversation_history, varsLoop, varsGraph, enabled, varsTask,
                   varsDetect, delivered, creation>>

\* create_agent in thread th: the agent is constructed with id i,
\* self.agents[agent.id] = agent, and the agent is returned
CreateRegister(th, o, i) ==
    /\ creating[th].at = "register"
    /\ o = created + 1
    /\ created' = o
    /\ agent_id' = [agent_id EXCEPT ![o] = i]
    /\ agents' = Register(agents, o, i)
    /\ conversation_history' = [conversation_history EXCEPT ![o] = InitialConversation]
    /\ createOp' = [outcome |-> "created",
                    running |-> Len(get_running_agents),
                    refused |-> createOp.refused]
    /\ creating' = [creating EXCEPT ![th] = NotCreating]
    /\ UNCHANGED <<stop, varsStatus, result, error, pc, varsLoop, varsGraph, enabled,
                   varsTask, varsDetect, delivered, evicted, creation>>

(***************************************************************************)
(* McpAgentCreator (src/mcp/mcp_agent_creator.py)                          *)
(***************************************************************************)
\* An agent block, by what execute reads in it:
\*   xml    "empty" (no agent_xml), "malformed" (ET.fromstring raises) or "ok"
\*   type   <type> is missing, is not a key of task_types, or is one
\*   name   <name> is present and not blank
\*   param  the parameter the type requires is present and not empty
AgentBlocks ==
    [xml : {"empty", "malformed", "ok"}, type : {"missing", "unknown", "known"},
     name : BOOLEAN, param : BOOLEAN]

\* _validate_and_enhance_agent_params: the error it reports, None if none.
\* A missing name is replaced by "<Type> Agent"
validate_and_enhance_agent_params(block) ==
    IF block.type # "known" THEN "Error: Invalid or missing agent type"
    ELSE IF ~block.param THEN "Error: Missing required parameter"
    ELSE None

\* execute up to the call of _create_enhanced_agent: the text it returns,
\* None if it goes on to create the agent
execute_rejects(block, has_orchestrator) ==
    IF block.xml = "empty" THEN "Error: No agent XML provided"
    ELSE IF block.xml = "malformed" THEN "Error parsing agent XML"
    ELSE IF validate_and_enhance_agent_params(block) # None
    THEN validate_and_enhance_agent_params(block)
    ELSE IF ~has_orchestrator
    THEN "Error creating agent: Task orchestrator not available"
    ELSE None

\* McpAgentCreator.execute on a block: the checks, then create_agent of the
\* orchestrator (whose exception is turned into text), then agent.execute()
AgentCreatorExecute(o, i, block, has_orchestrator) ==
    /\ o = created + 1
    /\ IF execute_rejects(block, has_orchestrator) # None
       THEN /\ creation' = [block |-> block, agent |-> 0,
                            text |-> execute_rejects(block, has_orchestrator)]
            /\ UNCHANGED <<varsReg, conversation_history, pc>>
       ELSE IF AdmissionRejects(Len(get_running_agents))
       THEN /\ creation' = [block |-> block, agent |-> 0,
                            text |-> "Error creating agent: Maximum concurrent agents"]
            /\ createOp' = [outcome |-> "rejected",
                            running |-> Len(get_running_agents),
                            refused |-> TRUE]
            /\ UNCHANGED <<created, agent_id, agents, conversation_history, pc>>
       ELSE LET kept == IF Len(agents) > agent_cleanup_threshold
                        THEN cleanup_old_agents(agents, agent_cleanup_threshold \div 2)
                        ELSE agents
            IN  /\ created' = o
                /\ agent_id' = [agent_id EXCEPT ![o] = i]
                /\ agents' = Register(kept, o, i)
                /\ conversation_history' =
                       [conversation_history EXCEPT ![o] = InitialConversation]
                /\ createOp' = [outcome |-> "created",
                                running |-> Len(get_running_agents),
                                refused |-> createOp.refused]
                /\ pc' = [pc EXCEPT ![o] = "start"]
                /\ creation' = [block |-> block, agent |-> o, text |-> "created"]
    /\ UNCHANGED <<stop, varsStatus, result, error, varsLoop, varsGraph, enabled,
                   varsTask, varsDetect, delivered, creating, evicted>>

(***************************************************************************)
(* Task agents: BaseAgent of src/agents/task_agents.py                     *)
(***************************************************************************)
\* the task agents, named by their Node ids
TaskAgentIds == 0 .. (MaxTaskAgents - 1)

\* AgentStatus of task_agents.py (PENDING and FAILED are the same strings)
WORKING == "WORKING"
SUCCESS == "SUCCESS"
CANCELLED == "CANCELLED"

\* everything but the task agents and the TaskRelationManager
varsEngine == <<varsReg, stop, varsStatus, result, error, pc, conversation_history,
                varsLoop, enabled, varsDetect, varsCalls>>

\* the fields set_status and _notify_callbacks write, as one value
TaskFields ==
    [status |-> task_status, start_time |-> task_start_time,
     end_time |-> task_end_time, notifications |-> notifications]

\* set_status of task_agents.py on the fields F: status, time stamp, callbacks
task_set_status(F, a, s) ==
    [status |-> [F.status EXCEPT ![a] = s],
     start_time |-> IF s = WORKING THEN [F.start_time EXCEPT ![a] = "set"]
                    ELSE F.start_time,
     end_time |-> IF s \in {SUCCESS, FAILED, CANCELLED}
                  THEN [F.end_time EXCEPT ![a] = "set"]
                  ELSE F.end_time,
     notifications |-> [F.notifications EXCEPT ![a] = @ + 1]]

\* the fields become F
WriteTaskFields(F) ==
    /\ task_status' = F.status
    /\ task_start_time' = F.start_time
    /\ task_end_time' = F.end_time
    /\ notifications' = F.notifications

\* cancel(): a WORKING agent is set CANCELLED and cancel() is called on each of
\* its sub-agents in turn; any other agent is left alone
RECURSIVE cancel(_, _), CancelEach(_, _, _)
\* a cancel() without the status test: C13 tells it apart
cancel_unguarded(F, a) == task_set_status(F, a, CANCELLED)

cancel(F, a) ==
    IF F.status[a] = WORKING
    THEN CancelEach(task_set_status(F, a, CANCELLED), sub_agents[a], 1)
    ELSE F

CancelEach(F, subs, k) ==
    IF k > Len(subs) THEN F
    ELSE CancelEach(cancel(F, subs[k]), subs, k + 1)

\* BaseAgent(name, description, trm): the fields are initialised and, given a
\* manager, the agent is added to it
NewTaskAgent(a, with_trm) ==
    /\ a \notin task_agents
    /\ task_agents' = task_agents \cup {a}
    /\ trm' = [trm EXCEPT ![a] = with_trm]
    /\ IF with_trm
       THEN LET G == add_task(GraphNow, a)
            IN  /\ task_registry' = G.reg
                /\ relationships' = G.rel
                /\ graphOp' = Op("add_task", a)
                /\ UNCHANGED <<nGraphOps, chain_walk>>
       ELSE UNCHANGED varsGraph
    /\ UNCHANGED <<varsTaskStatus, task_result, task_error, sub_agents, parent_agent,
                   task_pc, varsEngine>>

\* add_sub_agent(agent): parent link, list of sub-agents and, with a manager,
\* add_sub_tasks(self, [agent])
AddSubAgent(a, sub) ==
    /\ a \in task_agents /\ sub \in task_agents
    /\ parent_agent' = [parent_agent EXCEPT ![sub] = a]
    /\ sub_agents' = [sub_agents EXCEPT ![a] = Append(@, sub)]
    /\ IF trm[a]
       THEN LET G == add_sub_tasks(GraphNow, a, <<sub>>)
            IN  /\ task_registry' = G.reg
                /\ relationships' = G.rel
                /\ graphOp' = Op("add_sub_tasks", a)
                /\ UNCHANGED <<nGraphOps, chain_walk>>
       ELSE UNCHANGED varsGraph
    /\ UNCHANGED <<task_agents, trm, varsTaskStatus, task_result, task_error, task_pc,
                   varsEngine>>

\* execute(): starts the worker thread
TaskExecute(a) ==
    /\ a \in task_agents
    /\ task_pc[a] = "none"
    /\ task_pc' = [task_pc EXCEPT ![a] = "start"]
    /\ UNCHANGED <<task_agents, trm, varsTaskStatus, task_result, task_error,
                   sub_agents, parent_agent, varsGraph, varsEngine>>

\* _execute: self.set_status(AgentStatus.WORKING)
TaskWorkerStart(a) ==
    /\ task_pc[a] = "start"
    /\ WriteTaskFields(task_set_status(TaskFields, a, WORKING))
    /\ task_pc' = [task_pc EXCEPT ![a] = "task"]
    /\ UNCHANGED <<task_agents, trm, task_result, task_error, sub_agents,
                   parent_agent, varsGraph, varsEngine>>

\* _execute: result = self._execute_task(**kwargs); self.result = result
TaskReturns(a) ==
    /\ task_pc[a] = "task"
    /\ task_result' = [task_result EXCEPT ![a] = TaskResult]
    /\ task_pc' = [task_pc EXCEPT ![a] = "complete"]
    /\ UNCHANGED <<task_agents, trm, varsTaskStatus, task_error, sub_agents,
                   parent_agent, varsGraph, varsEngine>>

\* _execute: _execute_task raises; self.error = str(e)
TaskRaises(a) ==
    /\ task_pc[a] = "task"
    /\ task_error' = [task_error EXCEPT ![a] = "str(e)"]
    /\ task_pc' = [task_pc EXCEPT ![a] = "fail"]
    /\ UNCHANGED <<task_agents, trm, varsTaskStatus, task_result, sub_agents,
                   parent_agent, varsGraph, varsEngine>>

\* _execute: self.set_status(AgentStatus.SUCCESS), or FAILED in an except branch
TaskWorkerEnd(a) ==
    /\ task_pc[a] \in {"complete", "fail"}
    /\ WriteTaskFields(task_set_status(TaskFields, a,
                           IF task_pc[a] = "complete" THEN SUCCESS ELSE FAILED))
    /\ task_pc' = [task_pc EXCEPT ![a] = "done"]
    /\ UNCHANGED <<task_agents, trm, task_result, task_error, sub_agents,
                   parent_agent, varsGraph, varsEngine>>

\* cancel()
Cancel(a) ==
    /\ a \in task_agents
    /\ WriteTaskFields(cancel(TaskFields, a))
    /\ UNCHANGED <<task_agents, trm, task_result, task_error, sub_agents,
                   parent_agent, task_pc, varsGraph, varsEngine>>

\* no task agent has been constructed; S holds the ids that will be used
InitTaskOf(S) ==
    /\ task_agents = {}
    /\ trm = [a \in S |-> FALSE]
    /\ task_status = [a \in S |-> PENDING]
    /\ task_result = [a \in S |-> None]
    /\ task_error = [a \in S |-> None]
    /\ task_start_time = [a \in S |-> None]
    /\ task_end_time = [a \in S |-> None]
    /\ sub_agents = [a \in S |-> <<>>]
    /\ parent_agent = [a \in S |-> NoId]
    /\ notifications = [a \in S |-> 0]
    /\ task_pc = [a \in S |-> "none"]

InitTask == InitTaskOf(TaskAgentIds)

(***************************************************************************)
(* Specifications                                                          *)
(***************************************************************************)
Init == InitGraph /\ InitAgents /\ InitLoop /\ InitTask /\ InitDetect /\ InitCalls

SpecGraph == Init /\ [][NextGraph]_vars

\* every call of TaskRelationManager, the queries included; a started
\* get_task_chain goes on running
NextChain ==
    \/ NextGraph
    \/ \E t \in TaskIds : GetNeighbors(t)
    \/ \E t \in TaskIds : GetDirectionNeighbors(t)
    \/ \E t \in TaskIds, d \in Direction : GetChainEnter(t, d)
    \/ GetChainWhile
    \/ GetChainReturn

SpecChain == Init /\ [][NextChain]_vars /\ WF_vars(GetChainWhile)

\* the steps of the orchestrator's clients and of the stop_all_agents thread
Orchestration(S, callers) ==
    \/ \E o \in S : \E i \in FreshIds : CreateAgent(o, i)
    \/ \E o \in S : Execute(o)
    \/ \E who \in callers : StopAllBegin(who)
    \/ StopAllSetStatus
    \/ StopAllSetError

\* the worker thread of agent o, _execute_task taken as one step
Worker(o) ==
    \/ WorkerStart(o)
    \/ ExecuteTaskReturns(o)
    \/ ExecuteTaskRaises(o)
    \/ WorkerComplete(o)
    \/ WorkerFail(o)

Next ==
    \/ Orchestration(LifecycleObjs, {"orchestrator", "user"})
    \/ \E o \in LifecycleObjs : Worker(o)

Spec == Init /\ [][Next]_vars

\* as Spec, with enough agents to pass the ceiling
NextAdmission ==
    \/ Orchestration(AdmissionObjs, {"orchestrator"})
    \/ \E o \in AdmissionObjs : Worker(o)

SpecAdmission == Init /\ [][NextAdmission]_vars

\* create_agent called until the registry passes agent_cleanup_threshold, the
\* first agents executed
InitEviction ==
    /\ InitGraph /\ InitAgentsOf(EvictionObjs) /\ InitLoopOf(EvictionObjs)
    /\ InitTask /\ InitDetect /\ InitCalls

\* uuid4().int & 0xFFFFFFFF: the id does not follow the order of construction.
\* The o-th agent constructed draws a low or a high id, distinct from the others
RandomIds(o) == IF o <= MaxRandomIds THEN {o, IdLimit - o} ELSE {o}

\* create_agent called until the registry passes agent_cleanup_threshold, the
\* ids drawn at random
NextRandomIds ==
    \E o \in EvictionObjs : \E i \in RandomIds(o) : CreateAgent(o, i)

SpecRandomIds == InitEviction /\ [][NextRandomIds]_vars

NextEviction ==
    \/ \E o \in EvictionObjs : \E i \in FreshIds : CreateAgent(o, i)
    \/ \E o \in EvictionWorkers : Execute(o)
    \/ \E o \in EvictionWorkers : Worker(o)

SpecEviction == InitEviction /\ [][NextEviction]_vars

\* every tool's detect_request applied, any number of times, to any reply
InitDetection ==
    /\ InitGraph /\ InitAgents /\ InitLoop /\ InitTask /\ InitCalls
    /\ reply \in Texts
    /\ detection = [t \in ToolNames |-> "not called"]

NextDetection == \E t \in ToolNames : Detect(t)

SpecDetection == InitDetection /\ [][NextDetection]_vars

\* the worker threads and a stop_all_agents call, set_status in two steps
NextDelivery ==
    \/ \E o \in LifecycleObjs : \E i \in FreshIds : CreateAgent(o, i)
    \/ \E o \in LifecycleObjs : Execute(o)
    \/ StopAllBegin("orchestrator")
    \/ StopAllAssign
    \/ StopAllNotify
    \/ StopAllSetError
    \/ \E o \in LifecycleObjs :
          \/ WorkerAssign(o)
          \/ WorkerNotify(o)
          \/ ExecuteTaskReturns(o)
          \/ ExecuteTaskRaises(o)

SpecDelivery == Init /\ [][NextDelivery]_vars

\* one agent, its worker and stop_all_agents, with observers that may raise
NextBroadcast ==
    \/ \E o \in LoopObjs : \E i \in FreshIds : CreateAgent(o, i)
    \/ \E o \in LoopObjs : Execute(o)
    \/ StopAllBegin("orchestrator")
    \/ \E raises \in SUBSET Observers : StopAllSetStatusBroadcast(raises)
    \/ StopAllSetError
    \/ \E o \in LoopObjs :
          \/ \E raises \in SUBSET Observers : WorkerSetStatus(o, raises)
          \/ ExecuteTaskReturns(o)
          \/ ExecuteTaskRaises(o)

SpecBroadcast == Init /\ [][NextBroadcast]_vars

\* create_agent called from two threads, statement by statement
NextRegistry ==
    \E th \in CreatorThreads :
        \/ CreateEnter(th)
        \/ CleanupSort(th)
        \/ CleanupReplace(th)
        \/ \E o \in EvictionObjs : \E i \in FreshIds : CreateRegister(th, o, i)

SpecRegistry == InitEviction /\ [][NextRegistry]_vars

\* agents created from agent blocks, and their worker threads
NextCreator ==
    \/ \E o \in AdmissionObjs : \E i \in FreshIds :
          \E block \in AgentBlocks : \E has_orchestrator \in BOOLEAN :
             AgentCreatorExecute(o, i, block, has_orchestrator)
    \/ \E o \in AdmissionObjs : Worker(o)

SpecCreator == Init /\ [][NextCreator]_vars

\* the worker thread of task agent a
TaskWorker(a) ==
    \/ TaskWorkerStart(a)
    \/ TaskReturns(a)
    \/ TaskRaises(a)
    \/ TaskWorkerEnd(a)

\* task agents are constructed, attached to a parent (each at most once, none
\* to itself), executed and cancelled in any order
NextTask ==
    \/ \E a \in TaskAgentIds : \E with_trm \in BOOLEAN : NewTaskAgent(a, with_trm)
    \/ \E a \in TaskAgentIds : \E sub \in TaskAgentIds \ {a} :
          parent_agent[sub] = NoId /\ AddSubAgent(a, sub)
    \/ \E a \in TaskAgentIds : TaskExecute(a)
    \/ \E a \in TaskAgentIds : TaskWorker(a)
    \/ \E a \in TaskAgentIds : Cancel(a)

SpecTask == Init /\ [][NextTask]_vars

\* the ids of the task agents of the sub-agent trees
TreeAgentIds == 1 .. MaxTreeAgents

InitTree ==
    /\ InitGraph /\ InitAgents /\ InitLoop /\ InitTaskOf(TreeAgentIds)
    /\ InitDetect /\ InitCalls

\* task agents are constructed, with the shared manager or without one, and
\* attached to a parent (each at most once, none to itself) in any order
NextSubAgents ==
    \/ \E a \in TreeAgentIds : \E with_trm \in BOOLEAN : NewTaskAgent(a, with_trm)
    \/ \E a \in TreeAgentIds : \E sub \in TreeAgentIds \ {a} :
          parent_agent[sub] = NoId /\ AddSubAgent(a, sub)

SpecSubAgents == InitTree /\ [][NextSubAgents]_vars

\* the ids of the task agents that are run and cancelled as a tree
CancelAgentIds == 1 .. MaxCancelAgents

InitCancelTree ==
    /\ InitGraph /\ InitAgents /\ InitLoop /\ InitTaskOf(CancelAgentIds)
    /\ InitDetect /\ InitCalls

\* task agents without a manager are constructed, attached to a parent (each
\* at most once, none to itself), executed and cancelled in any order
NextCancelTree ==
    \/ \E a \in CancelAgentIds : NewTaskAgent(a, FALSE)
    \/ \E a \in CancelAgentIds : \E sub \in CancelAgentIds \ {a} :
          parent_agent[sub] = NoId /\ AddSubAgent(a, sub)
    \/ \E a \in CancelAgentIds : TaskExecute(a)
    \/ \E a \in CancelAgentIds : TaskWorker(a)
    \/ \E a \in CancelAgentIds : Cancel(a)

SpecCancelTree == InitCancelTree /\ [][NextCancelTree]_vars

\* self.rate_limit_backoff after n rate-limit events in a row
RECURSIVE BackoffAfter(_)
BackoffAfter(n) ==
    IF n = 0 THEN BaseBackoff ELSE _handle_rate_limiting(BackoffAfter(n - 1))

\* the loop of agent 1 at its call site, n rate-limit events into the run:
\* each of them went through the except branch, which counts it in
\* consecutive_errors, doubles the backoff and continues
InitBackoff ==
    /\ InitGraph /\ InitTask /\ InitDetect /\ InitCalls
    /\ created = 1
    /\ agent_id = [o \in Objs |-> IF o = 1 THEN 1 ELSE 0]
    /\ agents = <<1>>
    /\ createOp = [outcome |-> "created", running |-> 0, refused |-> FALSE]
    /\ stop = NoStop
    /\ status = [o \in Objs |-> IF o = 1 THEN RUNNING ELSE PENDING]
    /\ result = [o \in Objs |-> None]
    /\ error = [o \in Objs |-> None]
    /\ start_time = [o \in Objs |-> IF o = 1 THEN "set" ELSE None]
    /\ end_time = [o \in Objs |-> None]
    /\ observed = [o \in Objs |-> IF o = 1 THEN Snapshot(RUNNING, None, None)
                                    ELSE Snapshot(None, None, None)]
    /\ pc = [o \in Objs |-> IF o = 1 THEN "call" ELSE "none"]
    /\ conversation_history = [o \in Objs |-> IF o = 1 THEN InitialConversation
                                                ELSE <<>>]
    /\ last_response = [o \in Objs |-> ""]
    /\ tool_used = [o \in Objs |-> FALSE]
    /\ tools_used = [o \in Objs |-> <<>>]
    /\ tool_results = [o \in Objs |-> <<>>]
    /\ tool_event = [o \in Objs |-> "none"]
    /\ loop_exit = [o \in Objs |-> "none"]
    /\ enabled = [t \in ToolNames |-> TRUE]
    /\ \E n \in 0 .. MaxRateLimitEvents :
          /\ iteration = [o \in Objs |-> IF o = 1 THEN Min(n + 1, max_iterations)
                                          ELSE 0]
          /\ consecutive_errors = [o \in Objs |-> IF o = 1 THEN n ELSE 0]
          /\ api_calls = [o \in Objs |-> IF o = 1 THEN n ELSE 0]
          /\ posts = [o \in Objs |-> IF o = 1 /\ n > 0 THEN Retried ELSE <<>>]
          /\ rate_limit_backoff =
                 [o \in Objs |-> IF o = 1 THEN BackoffAfter(n) ELSE BaseBackoff]

\* the loop from there to the end of the run
NextBackoff ==
    \E o \in LoopObjs :
        \/ LoopHead(o)
        \/ ApiCallEmpty(o)
        \/ ApiCallRateLimited(o)
        \/ ApiCallError(o)
        \/ \E response \in Replies : ApiCallReply(o, response)
        \/ \E det \in Detections : \E exe \in {"ok", "raise"} : ProcessToolUsage(o, det, exe)
        \/ CheckTaskCompletion(o)
        \/ LoopReturn(o)
        \/ WorkerComplete(o)

SpecBackoff == InitBackoff /\ [][NextBackoff]_vars

\* the worker thread of agent o, the conversation loop taken step by step
LoopWorker(o) ==
    \/ WorkerStart(o)
    \/ CheckServerHealth(o)
    \/ LoopHead(o)
    \/ ApiCallEmpty(o)
    \/ ApiCallRateLimited(o)
    \/ ApiCallError(o)
    \/ \E response \in Replies : ApiCallReply(o, response)
    \/ \E det \in Detections : \E exe \in {"ok", "raise"} : ProcessToolUsage(o, det, exe)
    \/ CheckTaskCompletion(o)
    \/ LoopReturn(o)
    \/ WorkerComplete(o)
    \/ WorkerFail(o)

NextLoop ==
    \/ Orchestration(LoopObjs, {"orchestrator"})
    \/ \E o \in LoopObjs : LoopWorker(o)
    \/ \E t \in ToolNames : ToggleTool(t)

SpecLoop == Init /\ [][NextLoop]_vars

\* the backend call of the loop taken request by request: the streaming
\* request gives content, gives none or fails; after a failure the
\* non-streaming request gives content, gives none or raises
StreamingWorker(o) ==
    \/ WorkerStart(o)
    \/ CheckServerHealth(o)
    \/ LoopHead(o)
    \/ pc[o] = "call" /\ ApiCallEmpty(o)
    \/ \E response \in Replies : pc[o] = "call" /\ ApiCallReply(o, response)
    \/ StreamingFails(o)
    \/ pc[o] = "fallback" /\ ApiCallEmpty(o)
    \/ pc[o] = "fallback" /\ ApiCallRateLimited(o)
    \/ pc[o] = "fallback" /\ ApiCallError(o)
    \/ \E response \in Replies : pc[o] = "fallback" /\ ApiCallReply(o, response)
    \/ \E det \in Detections : \E exe \in {"ok", "raise"} : ProcessToolUsage(o, det, exe)
    \/ CheckTaskCompletion(o)
    \/ LoopReturn(o)
    \/ WorkerComplete(o)
    \/ WorkerFail(o)

NextStreaming ==
    \/ Orchestration(LoopObjs, {"orchestrator"})
    \/ \E o \in LoopObjs : StreamingWorker(o)

SpecStreaming == Init /\ [][NextStreaming]_vars

\* the loop where every reply asks for a tool and the tool returns a text
ToolOutputWorker(o) ==
    \/ WorkerStart(o)
    \/ CheckServerHealth(o)
    \/ LoopHead(o)
    \/ \E response \in Replies : ApiCallReply(o, response)
    \/ \E tool_result \in ToolOutputs : ProcessToolOutput(o, tool_result)
    \/ CheckTaskCompletion(o)
    \/ LoopReturn(o)
    \/ WorkerComplete(o)
    \/ WorkerFail(o)

NextToolOutput ==
    \/ Orchestration(LoopObjs, {"orchestrator"})
    \/ \E o \in LoopObjs : ToolOutputWorker(o)

SpecToolOutput == Init /\ [][NextToolOutput]_vars

\* a started thread keeps being scheduled; every call it makes returns
\* (requests time out after api_timeout, sleeps are finite)
SpecLoopFair == SpecLoop /\ \A o \in LoopObjs : WF_vars(LoopWorker(o))

(***************************************************************************)
(* Claims                                                                  *)
(***************************************************************************)
\* C9: for all registered a, b and every direction d, slot[a][d] = b implies
\* slot[b][reverse(d)] = a: no one-directional edge exists after any sequence
\* of add_task, set_relationship, add_sub_tasks and remove_node.
ReverseLinkInvariant ==
    \A a \in DOMAIN relationships : \A d \in Direction :
        LET b == relationships[a][d]
        IN  (b # NoId /\ b \in DOMAIN relationships)
                => relationships[b][get_reverse_direction(d)] = a

\* C10: after remove_node(a), a has no entry of its own and no remaining
\* entry holds a in any of its four direction slots.
RemoveLeavesNoReference ==
    graphOp.op = "remove_node" =>
        /\ graphOp.task \notin DOMAIN relationships
        /\ \A n \in DOMAIN relationships : \A d \in Direction :
               relationships[n][d] # graphOp.task


\* C1: for every agent, under any interleaving of execute(), the worker's
\* normal or failing completion and stop_all_agents, the status changes only
\* along PENDING -> RUNNING -> {COMPLETED, FAILED}: a terminal status is never
\* left or replaced, RUNNING is never re-entered.
StatusOnlyMovesForward ==
    [][\A o \in Objs :
          status'[o] # status[o] =>
              <<status[o], status'[o]>> \in
                  {<<PENDING, RUNNING>>, <<RUNNING, COMPLETED>>, <<RUNNING, FAILED>>}]_vars

\* C2: in every reachable state, and in every state a status callback observes,
\* a FAILED agent has an error and a COMPLETED agent has a result.
TerminalFieldIsSet ==
    \A o \in Objs :
        /\ status[o] = FAILED => error[o] # None
        /\ status[o] = COMPLETED => result[o] # None
        /\ observed[o].status = FAILED => observed[o].error # None
        /\ observed[o].status = COMPLETED => observed[o].result # None

\* C3: whenever no stop_all_agents call is under way, a COMPLETED agent has a
\* result and no error, and a FAILED agent has an error and no result.
ExactlyOneOfResultAndError ==
    stop.phase = "idle" =>
        \A o \in Objs :
            /\ status[o] = COMPLETED => (result[o] # None /\ error[o] = None)
            /\ status[o] = FAILED => (error[o] # None /\ result[o] = None)

\* C4: a create_agent call is rejected exactly when the number of registered
\* RUNNING agents it finds is at or above max_concurrent_agents; below the
\* ceiling it creates and registers the agent, also after an earlier rejection.
AdmissionControl ==
    /\ createOp.outcome = "rejected" => createOp.running >= max_concurrent_agents
    /\ createOp.outcome = "created" =>
           /\ createOp.running < max_concurrent_agents
           /\ created \in Range(agents)

\* C4 happens: a creation was refused at the ceiling, one of the RUNNING agents
\* left RUNNING, and the next creation succeeded
CreatedAgainAfterRejection ==
    /\ createOp.outcome = "created"
    /\ createOp.refused
    /\ createOp.running = max_concurrent_agents - 1
    /\ created = max_concurrent_agents + 1

\* C5: in every reachable state the number of registered agents whose status
\* is RUNNING is at most max_concurrent_agents.
RunningWithinCeiling == Len(get_running_agents) <= max_concurrent_agents

\* C6: the loop makes at most max_iterations iterations and backend calls,
\* whatever each call does, and an agent that is RUNNING eventually is not.
LoopTerminates ==
    /\ [](\A o \in LoopObjs :
             iteration[o] <= max_iterations /\ api_calls[o] <= max_iterations)
    /\ \A o \in LoopObjs : (status[o] = RUNNING) ~> (status[o] # RUNNING)

\* C6 happens: the loop ran into the ceiling and the agent left RUNNING
LoopExhausted ==
    \E o \in LoopObjs :
        /\ loop_exit[o] = "exhausted"
        /\ iteration[o] = max_iterations
        /\ api_calls[o] = max_iterations
        /\ pc[o] = "done"
        /\ status[o] = COMPLETED

\* C7: an agent whose loop was left because of three consecutive failed
\* backend calls ends FAILED.
ThreeFailuresEndFailed ==
    \A o \in LoopObjs :
        (loop_exit[o] = "errors" /\ pc[o] = "done") => status[o] = FAILED

\* C8: a tool's detect_request or execute raising inside an iteration leaves
\* the thread in the loop (its next step is the completion check), appends one
\* user message with the diagnostic, and changes neither status nor error.
ToolErrorIsContained ==
    [][\A o \in LoopObjs :
          (pc[o] = "tools" /\ pc'[o] # "tools"
              /\ tool_event'[o] \in {"detect_error", "execute_error"})
          => /\ pc'[o] = "check"
             /\ conversation_history'[o] =
                    Append(conversation_history[o], Msg("user", "tool_error"))
             /\ status'[o] = status[o]
             /\ error'[o] = error[o]]_vars

\* C8 happens: a tool has raised, the agent is RUNNING and goes on to the
\* completion check with the diagnostic as the last message
ToolErrorHandled ==
    \E o \in LoopObjs :
        /\ tool_event[o] \in {"detect_error", "execute_error"}
        /\ pc[o] = "check"
        /\ status[o] = RUNNING
        /\ error[o] = None
        /\ conversation_history[o][Len(conversation_history[o])]
               = Msg("user", "tool_error")


\* C11: no step removes from the orchestrator registry an agent whose status
\* is RUNNING: neither the cleanup in create_agent nor a registration.
RunningAgentStaysRegistered ==
    [][\A o \in DOMAIN status :
          (o \in Range(agents) /\ status[o] = RUNNING) => o \in Range(agents')]_vars


\* C12: when the orchestrator's stop_all_agents returns, an agent that was
\* RUNNING when it was called is FAILED and its error is the text
\* "Stopped by orchestrator"; stated for the agent the call handles last.
StoppedAgentIsFailed ==
    [][(stop.phase = "error" /\ stop.who = "orchestrator" /\ stop'.phase = "idle")
          => /\ status'[Head(stop.queue)] = FAILED
             /\ error'[Head(stop.queue)] = StoppedByOrchestrator]_vars


\* C13: a cancel() call on a WORKING agent sets it CANCELLED, stamps its end
\* time and runs its callbacks once; a cancel() call on an agent in any other
\* status changes no status, time stamp, result or error of any agent and runs
\* no callback.
CancelFrame ==
    [][\A a \in TaskAgentIds :
          Cancel(a) =>
              IF task_status[a] = WORKING
              THEN /\ task_status'[a] = CANCELLED
                   /\ task_end_time'[a] = "set"
                   /\ notifications'[a] = notifications[a] + 1
                   /\ UNCHANGED <<task_start_time, task_result, task_error>>
              ELSE UNCHANGED <<task_status, task_start_time, task_end_time,
                               notifications, task_result, task_error>>]_vars

\* C13 happens: cancel() has acted on a WORKING agent, and on its WORKING
\* sub-agent through it
CancelledWhileWorking ==
    \E a \in TaskAgentIds : \E sub \in TaskAgentIds \ {a} :
        /\ task_status[a] = CANCELLED
        /\ task_status[sub] = CANCELLED
        /\ sub_agents[a] = <<sub>>
        /\ sub_agents[sub] = <<>>
        /\ notifications[a] = 2 /\ notifications[sub] = 2
        /\ task_pc[a] = "task"


\* C14: once stop_all_agents has set an agent FAILED while its worker thread is
\* still inside _execute_task or about to report success, the worker makes no
\* further backend call, appends nothing to the conversation and does not
\* change the status.
WorkerHonoursStop ==
    [][\A o \in LoopObjs :
          (status[o] = FAILED
              /\ pc[o] \in {"task", "while", "call", "tools", "check", "return",
                            "complete"})
          => /\ api_calls'[o] = api_calls[o]
             /\ conversation_history'[o] = conversation_history[o]
             /\ status'[o] = status[o]]_vars


\* C15: for a reply without a tool block, detect_request of every tool returns
\* None, each time it is called, whatever the narration says.
NoBlockNoCommand ==
    reply.block = "none" =>
        \A t \in ToolNames : detection[t] \in {"not called", "None"}

\* C16: for a reply whose only tool block names a tool that is not one of the
\* agent's, detect_request of every tool returns None, whatever text
\* surrounds the block.
UnknownToolNoCommand ==
    (reply.block = "other" /\ reply.block2 = "none") =>
        \A t \in ToolNames : detection[t] \in {"not called", "None"}


\* C17: a tool whose enabled flag is false when _process_tool_usage_with_streaming
\* runs is invisible to it: the step is the one the loop takes when that tool
\* detects nothing (same conversation, same logs, same outcome), whatever the
\* tool would have detected or raised, and no entry added to tools_used names it.
DisabledToolIsInvisible ==
    [][\A o \in LoopObjs : \A t \in ToolNames :
          \A det \in Detections : \A exe \in {"ok", "raise"} :
             (~enabled[t] /\ ProcessToolUsage(o, det, exe)) =>
                 /\ ProcessToolUsage(o, [det EXCEPT ![t] = "none"], exe)
                 /\ \/ tools_used'[o] = tools_used[o]
                    \/ tools_used'[o][Len(tools_used'[o])].tool_name # t]_vars

\* the loop has run a tool while the tool before it in self.tools was disabled
DisabledToolSkipped ==
    \E o \in LoopObjs :
        /\ pc[o] = "check"
        /\ ~enabled["mcp_websearch"] /\ enabled["mcp_curl"]
        /\ tool_event[o] = "tool_ok"
        /\ tools_used[o] # <<>>
        /\ tools_used[o][Len(tools_used[o])].tool_name = "mcp_curl"


\* C18: whatever the interleaving of a worker's set_status calls with
\* stop_all_agents, every notification an orchestrator observer receives for
\* an agent shows the status whose assignment caused that notification.
DeliveryShowsItsTransition ==
    \A k \in 1 .. Len(delivered) : delivered[k].shown = delivered[k].set


\* C19: whatever the interleaving of concurrent create_agent calls, every
\* agent a call has returned is still in the registry unless some
\* cleanup_old_agents call sorted it and did not keep it.
NoRegistrationLost ==
    \A o \in 1 .. created : o \in Range(agents) \/ o \in evicted


\* C20: McpAgentCreator.execute returns a text for every block, and for a
\* well-formed block without a name or without its required parameter the
\* text is an error and no agent is created or started.
BlockErrorsAreText ==
    creation.text # None =>
        /\ creation.agent # 0 <=> creation.text = "created"
        /\ (creation.block.xml = "ok" /\ (~creation.block.name \/ ~creation.block.param))
              => (creation.text # "created" /\ creation.agent = 0)


\* C21: when every iteration so far got a non-empty reply with no tool command
\* and the last reply has no completion phrase, a loop that has stopped has
\* stopped at the ceiling max_iterations and at no earlier iteration.
PlainRepliesRunToCeiling ==
    \A o \in LoopObjs :
        (/\ loop_exit[o] # "none"
         /\ last_response[o] \in {"plain_short", "plain_long"}
         /\ Len(conversation_history[o]) = Len(InitialConversation) + iteration[o]
         /\ \A k \in (Len(InitialConversation) + 1) .. Len(conversation_history[o]) :
               conversation_history[o][k] = Msg("assistant", "reply"))
        => (loop_exit[o] = "exhausted" /\ iteration[o] = max_iterations)


\* C22: in an iteration in which a tool fired, the loop goes on to the next
\* iteration whatever the reply says: the completion check does not end it.
ToolIterationContinues ==
    [][\A o \in LoopObjs :
          (pc[o] = "check" /\ tool_used[o] /\ pc'[o] # "check") => pc'[o] = "while"]_vars


\* C23: one pass of _process_tool_usage_with_streaming executes at most one
\* tool: it adds at most one entry to tools_used, the entry names the first
\* tool, in the order of self.tools, that is enabled and whose detection
\* returns a command, and the pass is the same whatever the tools after that
\* one would have detected.
FirstMatchWins ==
    [][\A o \in LoopObjs : \A det \in Detections : \A exe \in {"ok", "raise"} :
          ProcessToolUsage(o, det, exe) =>
              LET acting == {k \in 1 .. Len(Tools) :
                                enabled[Tools[k]] /\ det[Tools[k]] # "none"}
                  after(k) == [t \in ToolNames |->
                                 IF \E j \in (k + 1) .. Len(Tools) : Tools[j] = t
                                 THEN "none" ELSE det[t]]
              IN  /\ Len(tools_used'[o]) <= Len(tools_used[o]) + 1
                  /\ Len(tools_used'[o]) = Len(tools_used[o]) + 1 =>
                        \E k \in acting :
                           /\ \A j \in acting : k <= j
                           /\ det[Tools[k]] = "command"
                           /\ tools_used'[o][Len(tools_used'[o])].tool_name = Tools[k]
                  /\ \A k \in acting :
                        (\A j \in acting : k <= j) => ProcessToolUsage(o, after(k), exe)]_vars

\* a tool has run in a pass in which both tools were enabled; the entry names
\* the first of them
FirstToolRan ==
    \E o \in LoopObjs :
        /\ pc[o] = "check"
        /\ enabled["mcp_websearch"] /\ enabled["mcp_curl"]
        /\ tool_event[o] = "tool_ok"
        /\ Len(tools_used[o]) = 1
        /\ tools_used[o][1].tool_name = "mcp_websearch"


\* C24: in a reply with two tool blocks of which the first names a tool the
\* agent does not have and the second names one it has, detect_request of the
\* tool the second block names returns the command of that block.
SecondBlockIsDetected ==
    /\ (reply.block = "other" /\ reply.block2 = "web_search")
          => detection["mcp_websearch"] \in {"not called", "query"}
    /\ (reply.block = "other" /\ reply.block2 = "curl")
          => detection["mcp_curl"] \in {"not called", "block"}


\* C25: tools_used grows by one entry in exactly the iterations that report
\* tool_used = TRUE, and is always as long as tool_results; so its length is
\* the number of iterations in which a tool fired.
ToolLogCountsToolIterations ==
    [][\A o \in LoopObjs :
          /\ Len(tools_used'[o]) = Len(tool_results'[o])
          /\ (pc[o] = "tools" /\ pc'[o] = "check") =>
                Len(tools_used'[o]) =
                    Len(tools_used[o]) + (IF tool_used'[o] THEN 1 ELSE 0)
          /\ ~(pc[o] = "tools" /\ pc'[o] = "check") =>
                Len(tools_used'[o]) = Len(tools_used[o])]_vars


\* C26: the delay of a rate-limit event is self.rate_limit_backoff, which
\* starts at BaseBackoff; each rate-limit event doubles it for the next one,
\* never beyond max_backoff; a non-empty reply of the backend sets it back to
\* BaseBackoff; nothing else changes it.
BackoffDoublesUpToCeiling ==
    [][\A o \in LoopObjs :
          /\ BaseBackoff <= rate_limit_backoff[o] /\ rate_limit_backoff[o] <= max_backoff
          /\ rate_limit_backoff'[o] <= max_backoff
          /\ IF ApiCallRateLimited(o)
             THEN rate_limit_backoff'[o] =
                      IF 2 * rate_limit_backoff[o] <= max_backoff
                      THEN 2 * rate_limit_backoff[o] ELSE max_backoff
             ELSE IF \E response \in Replies : ApiCallReply(o, response)
             THEN rate_limit_backoff'[o] = BaseBackoff
             ELSE rate_limit_backoff'[o] = rate_limit_backoff[o]]_vars

\* a rate-limit event whose doubled delay would pass the ceiling has happened
BackoffAtCeiling ==
    \E o \in LoopObjs :
        /\ pc[o] = "while"
        /\ rate_limit_backoff[o] = max_backoff
        /\ consecutive_errors[o] = 6
        /\ api_calls[o] = 6


\* C27: when the loop comes back to its head from a backend call that failed
\* with a transient error (every failure since the last reply was a rate-limit
\* signal, or the last one was a timeout or connection error, whose message
\* ends the conversation), the retry does not use up an iteration: the
\* counter is the same at the next call.
TransientRetryKeepsIteration ==
    [][\A o \in LoopObjs :
          (/\ pc[o] = "while" /\ pc'[o] = "call"
           /\ consecutive_errors[o] > 0
           /\ \/ rate_limit_backoff[o] = BackoffAfter(consecutive_errors[o])
              \/ conversation_history[o][Len(conversation_history[o])] =
                    Msg("user", "backend_error"))
          => iteration'[o] = iteration[o]]_vars


\* C28: a backend call that fails without ending the loop, by an empty reply
\* or by an error other than a rate-limit signal, appends exactly one user
\* message describing the failure to the conversation, and the iteration
\* counter is not changed by the failure itself.
FailureAppendsOneDiagnostic ==
    [][\A o \in LoopObjs :
          ((ApiCallEmpty(o) \/ ApiCallError(o)) /\ pc'[o] = "while") =>
              /\ Len(conversation_history'[o]) = Len(conversation_history[o]) + 1
              /\ conversation_history'[o][Len(conversation_history'[o])].role = "user"
              /\ SubSeq(conversation_history'[o], 1, Len(conversation_history[o]))
                    = conversation_history[o]
              /\ iteration'[o] = iteration[o]]_vars


\* C29: the agents that cleanup_old_agents has removed from the registry were
\* all constructed before every agent that is still registered (objects are
\* numbered in the order of construction).
EvictionRemovesOldest ==
    \A e \in 1 .. created : \A s \in Range(agents) :
        e \notin Range(agents) => e < s


\* C30: every set_status call on a registered agent, by its worker or by
\* stop_all_agents, hands the agent to every orchestrator observer, in the
\* order of registration, whichever of them raise, and leaves the agent in
\* the status that was set.
EveryObserverIsNotified ==
    [][\A o \in LoopObjs :
          LET byWorker == pc[o] \in {"start", "complete", "fail"} /\ pc'[o] # pc[o]
              byStop == /\ stop.phase = "status" /\ stop'.phase = "error"
                        /\ Head(stop.queue) = o
              s == IF byWorker THEN StatusSetAt(pc[o]) ELSE FAILED
          IN  (o \in Range(agents) /\ (byWorker \/ byStop)) =>
                  /\ status'[o] = s
                  /\ Len(delivered') = Len(delivered) + NumObservers
                  /\ SubSeq(delivered', 1, Len(delivered)) = delivered
                  /\ \A k \in Observers :
                        /\ delivered'[Len(delivered) + k].observer = k
                        /\ delivered'[Len(delivered) + k].agent = o
                        /\ delivered'[Len(delivered) + k].set = s]_vars

\* the first observer raised and the one after it was notified all the same
LaterObserverNotified ==
    \E n \in 1 .. Len(delivered) - 1 :
        /\ delivered[n].observer = 1 /\ delivered[n].raised
        /\ delivered[n + 1].observer = 2
        /\ delivered[n + 1].agent = delivered[n].agent
        /\ delivered[n + 1].shown = delivered[n].set
        /\ status[delivered[n].agent] = delivered[n].set


\* C31: add_sub_tasks(parent, [c1..cn]) with n >= 1 takes d, the first of DOWN
\* and RIGHT in which the parent has no neighbour; it links c1 to the parent
\* along d and every later ci to c(i-1) along d, both ways, and changes no
\* other slot of the parent; when the parent has a neighbour in both
\* directions the registry and the relationships are left as they were.
SiblingChaining ==
    [][\A p \in TaskIds : \A subs \in SubTaskLists(p) :
          (subs # <<>> /\ AddChildren(p, subs)) =>
              LET free(e) == p \notin DOMAIN relationships \/ relationships[p][e] = NoId
                  old(e) == IF p \in DOMAIN relationships THEN relationships[p][e]
                            ELSE NoId
                  d == IF free("DOWN") THEN "DOWN"
                       ELSE IF free("RIGHT") THEN "RIGHT" ELSE "NONE"
              IN  IF d = "NONE"
                  THEN relationships' = relationships /\ task_registry' = task_registry
                  ELSE /\ relationships'[p][d] = subs[1]
                       /\ relationships'[subs[1]][get_reverse_direction(d)] = p
                       /\ \A i \in 2 .. Len(subs) :
                             /\ relationships'[subs[i - 1]][d] = subs[i]
                             /\ relationships'[subs[i]][get_reverse_direction(d)]
                                   = subs[i - 1]
                       /\ \A e \in Direction \ {d} : relationships'[p][e] = old(e)]_vars


\* C32: on every graph built by add_task, set_relationship, add_sub_tasks and
\* remove_node, graphs where following one direction comes back to a visited
\* node included, a started get_task_chain(id, direction) returns its list.
GetChainTerminates == chain_walk.pc = "while" ~> chain_walk.pc = "return"


\* C38: after any sequence of add_task, set_relationship, get_neighbors,
\* get_direction_neighbors, get_task_chain, add_sub_tasks and remove_node
\* calls, calls on tasks that were never added included, the ids that are keys
\* of task_registry are the ids that are keys of relationships.
RegistryMatchesRelationships == task_registry = DOMAIN relationships


\* C35: whenever the conversation loop is about to call the backend, fewer
\* than three consecutive failed calls (empty reply or exception, rate-limit
\* errors included) have happened since the last successful reply.
CallsStopAfterThreeErrors ==
    \A o \in LoopObjs :
        pc[o] = "call" => consecutive_errors[o] < MaxConsecutiveErrors


\* C36: after any sequence of add_sub_agent calls on a parent that has a
\* TaskRelationManager, every agent of parent.sub_agents is registered in the
\* graph and is met from the parent by following DOWN and RIGHT links.
SubAgentsAreLinked ==
    LET RECURSIVE DownRightClosure(_)
        DownRightClosure(S) ==
            LET T == S \cup ({relationships[n][d] :
                                 n \in S \cap DOMAIN relationships,
                                 d \in {"DOWN", "RIGHT"}} \ {NoId})
            IN  IF T = S THEN S ELSE DownRightClosure(T)
    IN  \A a \in task_agents :
            trm[a] =>
                \A k \in DOMAIN sub_agents[a] :
                    /\ sub_agents[a][k] \in task_registry
                    /\ sub_agents[a][k] \in DOMAIN relationships
                    /\ sub_agents[a][k] \in DownRightClosure({a})


\* C37: when cancel() on a WORKING agent has returned, no agent of its
\* sub-agent tree (the agents attached by add_sub_agent, transitively) is
\* WORKING, whatever the statuses of the agents in between were.
CancelReachesTheSubTree ==
    [][\A a \in CancelAgentIds :
          (Cancel(a) /\ task_status[a] = WORKING) =>
              LET RECURSIVE SubTree(_)
                  SubTree(S) ==
                      LET T == S \cup UNION {Range(sub_agents[n]) : n \in S}
                      IN  IF T = S THEN S ELSE SubTree(T)
              IN  \A d \in SubTree(Range(sub_agents[a])) :
                      task_status'[d] # WORKING]_vars


\* C33: when the streaming request of a backend call fails, at the connection,
\* at the status or while the stream is read, the loop is not aborted and
\* counts no error for it; the same messages are posted once more without
\* streaming in the same iteration and the same call, and a reply to that
\* request becomes the assistant reply.
StreamingFailureFallsBack ==
    [][\A o \in LoopObjs :
          /\ StreamingFails(o) =>
                /\ pc'[o] = "fallback"
                /\ status'[o] = status[o]
                /\ loop_exit'[o] = loop_exit[o]
                /\ consecutive_errors'[o] = consecutive_errors[o]
                /\ conversation_history'[o] = conversation_history[o]
                /\ iteration'[o] = iteration[o]
          /\ (pc[o] = "fallback" /\ pc'[o] # pc[o]) =>
                /\ posts[o] = Streamed
                /\ posts'[o] = Retried
                /\ api_calls'[o] = api_calls[o] + 1
                /\ iteration'[o] = iteration[o]
          /\ \A response \in Replies :
                (pc[o] = "fallback" /\ ApiCallReply(o, response)) =>
                    /\ pc'[o] = "tools"
                    /\ last_response'[o] = response
                    /\ conversation_history'[o] =
                           Append(conversation_history[o], Msg("assistant", "reply"))
                    /\ consecutive_errors'[o] = 0]_vars

\* C33 happens: the streaming request of the second call has failed and the
\* reply to the non-streaming request is the assistant reply
FallbackReplyUsed ==
    \E o \in LoopObjs :
        /\ pc[o] = "tools"
        /\ posts[o] = Retried
        /\ iteration[o] = 2
        /\ api_calls[o] = 2
        /\ last_response[o] \in Replies
        /\ conversation_history[o][Len(conversation_history[o])]
               = Msg("assistant", "reply")


\* C34: the tool output appended to an agent's conversation is capped: for a
\* tool result longer than the cap the appended text holds the first cap
\* characters followed by the truncation marker, so no tool-result message is
\* longer than the text before the result, the cap and the marker together.
ToolOutputIsCapped ==
    [][\A o \in LoopObjs : \A tool_result \in ToolOutputs :
          ProcessToolOutput(o, tool_result) =>
              LET appended == conversation_history'[o][Len(conversation_history'[o])]
              IN  /\ appended.content = tool_message(truncate_tool_output(tool_result))
                  /\ Len(appended.content) <= 1 + ToolOutputCap + 1]_vars

=============================================================================
